---- MODULE Spec2Model ----
(***************************************************************************)
(* A model of the EVE-Preview-Manager daemon core: the window classifier   *)
(* (preview/window_detection.rs, x11/query.rs) and the input/focus event   *)
(* handlers (daemon/handlers/input.rs, daemon/handlers/state.rs).          *)
(***************************************************************************)
EXTENDS Integers, Sequences, FiniteSets, TLC

(***************************************************************************)
(* Bounds of the model.                                                    *)
(***************************************************************************)
MaxTitleLen == 3

(***************************************************************************)
(* Strings are modelled as sequences of tokens.  A token stands for a run  *)
(* of bytes/characters; "xFF" is a byte that is not valid UTF-8 and        *)
(* "uFFFD" the replacement character it decodes to.                        *)
(***************************************************************************)
ByteTokens == {"EVE", " - ", "steam_app_", "A", "xFF"}

RECURSIVE SeqsUpTo(_, _)
SeqsUpTo(S, n) ==
    IF n = 0 THEN {<< >>}
    ELSE LET shorter == SeqsUpTo(S, n - 1)
         IN  shorter \cup {Append(s, t) : s \in {u \in shorter : Len(u) = n - 1}, t \in S}

WmNameValues == SeqsUpTo(ByteTokens, MaxTitleLen)

\* eve::WINDOW_TITLE_PREFIX, eve::LOGGED_OUT_TITLE and the container marker
WINDOW_TITLE_PREFIX == <<"EVE", " - ">>
LOGGED_OUT_TITLE == <<"EVE">>
STEAM_APP_MARKER == <<"steam_app_">>

\* Result<Option<T>> / Result<bool> values
OkNone == [tag |-> "OkNone"]
OkSome(v) == [tag |-> "OkSome", val |-> v]
OkBool(b) == [tag |-> "OkBool", val |-> b]
ResErr == [tag |-> "Err"]
Pending == [tag |-> "Pending"]

\* EveWindowType
LoggedIn(name) == [kind |-> "LoggedIn", name |-> name]
LoggedOut == [kind |-> "LoggedOut"]

\* EveWindowType::character_name(): the logged-out variant has the empty name
character_name_of(t) == IF t.kind = "LoggedIn" THEN t.name ELSE << >>

\* String::from_utf8_lossy
from_utf8_lossy(bytes) ==
    [i \in 1..Len(bytes) |-> IF bytes[i] = "xFF" THEN "uFFFD" ELSE bytes[i]]

\* str::strip_prefix: OkSome(rest) when s starts with p, OkNone otherwise
strip_prefix(s, p) ==
    IF Len(s) >= Len(p) /\ SubSeq(s, 1, Len(p)) = p
    THEN OkSome(SubSeq(s, Len(p) + 1, Len(s)))
    ELSE OkNone

\* str::contains
contains(s, sub) ==
    \E i \in 1..(Len(s) - Len(sub) + 1) : SubSeq(s, i, i + Len(sub) - 1) = sub

(***************************************************************************)
(* x11/query.rs.  A reply is "Ok" (the property value is delivered),       *)
(* "BadWindow" (the X11 Window error: the window no longer exists) or      *)
(* "Other" (any other failure of the request or the reply).                *)
(***************************************************************************)
ReplyKinds == {"Ok", "BadWindow", "Other"}

\* title_gate without the container-marker rejection
title_gate_no_marker(title) ==
    LET stripped == strip_prefix(title, WINDOW_TITLE_PREFIX)
    IN  IF stripped.tag = "OkSome"
        THEN OkSome(LoggedIn(stripped.val))
        ELSE IF title = LOGGED_OUT_TITLE
             THEN OkSome(LoggedOut)
             ELSE OkNone

\* the title decision of is_window_eve (query.rs 38-52)
title_gate(title) ==
    LET stripped == strip_prefix(title, WINDOW_TITLE_PREFIX)
    IN  IF stripped.tag = "OkSome"
        THEN IF contains(stripped.val, STEAM_APP_MARKER)
             THEN OkNone
             ELSE OkSome(LoggedIn(stripped.val))
        ELSE IF title = LOGGED_OUT_TITLE
             THEN OkSome(LoggedOut)
             ELSE OkNone

is_window_eve(reply, wm_name) ==
    CASE reply = "Ok" -> title_gate(from_utf8_lossy(wm_name))
      [] reply = "BadWindow" -> OkNone
      [] OTHER -> ResErr

\* WM_CLASS is "instance NUL class NUL"; slice::split on the NUL byte
RECURSIVE split_nul(_)
split_nul(bytes) ==
    IF \A i \in 1..Len(bytes) : bytes[i] # "NUL"
    THEN <<bytes>>
    ELSE LET k == CHOOSE i \in 1..Len(bytes) :
                      bytes[i] = "NUL" /\ \A j \in 1..(i - 1) : bytes[j] # "NUL"
         IN  <<SubSeq(bytes, 1, k - 1)>> \o split_nul(SubSeq(bytes, k + 1, Len(bytes)))

\* the class decision of get_window_class (query.rs 85-98)
class_of_value(value) ==
    IF value = << >>
    THEN OkNone
    ELSE LET parts == split_nul(value)
         IN  IF Len(parts) >= 2 /\ parts[2] # << >>
             THEN OkSome(from_utf8_lossy(parts[2]))
             ELSE OkSome(from_utf8_lossy(parts[1]))

get_window_class(reply, wm_class) ==
    CASE reply = "Ok" -> class_of_value(wm_class)
      [] reply = "BadWindow" -> OkNone
      [] OTHER -> ResErr

\* x11::ICONIC_STATE / NORMAL_STATE (ICCCM WM_STATE values)
ICONIC_STATE == 3
NORMAL_STATE == 1

\* Option<T>
None == [some |-> FALSE]
Some(v) == [some |-> TRUE, v |-> v]

\* A property value read with value32(): None when the format is not 32.
\* first query of is_window_minimized (query.rs 102-131): _NET_WM_STATE
is_window_minimized_net_state(reply, net_wm_state) ==
    CASE reply = "Ok" ->
            IF net_wm_state.some
               /\ \E i \in 1..Len(net_wm_state.v) : net_wm_state.v[i] = "HIDDEN"
            THEN OkBool(TRUE)
            ELSE Pending
      [] reply = "BadWindow" -> OkBool(FALSE)
      [] OTHER -> ResErr

\* the second query without its Window-error arm
is_window_minimized_wm_state_no_arm(reply, wm_state) ==
    CASE reply = "Ok" ->
            IF wm_state.some /\ Len(wm_state.v) >= 1 /\ wm_state.v[1] = ICONIC_STATE
            THEN OkBool(TRUE)
            ELSE OkBool(FALSE)
      [] OTHER -> ResErr

\* second query of is_window_minimized (query.rs 133-161): WM_STATE
is_window_minimized_wm_state(reply, wm_state) ==
    CASE reply = "Ok" ->
            IF wm_state.some /\ Len(wm_state.v) >= 1 /\ wm_state.v[1] = ICONIC_STATE
            THEN OkBool(TRUE)
            ELSE OkBool(FALSE)
      [] reply = "BadWindow" -> OkBool(FALSE)
      [] OTHER -> ResErr

\* x11::is_eve_window_class: membership in the known client classes
KnownClasses == {<<"eve">>}
is_eve_window_class(c) == c \in KnownClasses

\* Result::ok().flatten() of get_window_class, then the class gate
\* (window_detection.rs 27-33)
is_known_class_of(class_res) ==
    IF class_res.tag = "OkSome" THEN is_eve_window_class(class_res.val) ELSE FALSE

\* the _NET_WM_PID read (window_detection.rs 36-57): a failed reply or an
\* empty value is an absent PID
pid_of_reply(reply, pid_prop) ==
    IF reply = "Ok" /\ pid_prop # "none" THEN pid_prop ELSE "none"

\* a process strategy that inspects the title of every window of another process
process_strategy_any_pid(pid, wine, is_known_class) ==
    IF pid # "none"
    THEN IF pid = "own" THEN "reject_own" ELSE "inspect"
    ELSE IF is_known_class THEN "inspect" ELSE "reject"

\* a process strategy without the class fallback: only the windows of a
\* process identified as Wine/Proton are inspected
process_strategy_wine_only(pid, wine, is_known_class) ==
    IF pid # "none"
    THEN IF pid = "own" THEN "reject_own"
         ELSE IF wine THEN "inspect"
         ELSE "reject"
    ELSE "reject"

\* "Evaluate Process Strategy" (window_detection.rs 59-98).  pid is "none",
\* "own" (std::process::id()) or another process; wine is is_wine_process(pid).
\* The result is "reject_own" (early return), "inspect" or "reject".
process_strategy(pid, wine, is_known_class) ==
    IF pid # "none"
    THEN IF pid = "own" THEN "reject_own"
         ELSE IF wine THEN "inspect"
         ELSE IF is_known_class THEN "inspect"
         ELSE "reject"
    ELSE IF is_known_class THEN "inspect" ELSE "reject"

(***************************************************************************)
(* State.                                                                  *)
(***************************************************************************)
VARIABLES
    \* the classifier run on one window (check_and_create_window)
    xwin,            \* the X server's side of the window being classified
    cpc,             \* position of the classifier in its sequence of queries
    cl,              \* the classifier's locals and the results of its queries
    xmask,           \* event mask the daemon has selected on the window
    \* the daemon (EventContext)
    session_state,   \* SessionState
    eve_clients,     \* HashMap<Window, Thumbnail>
    cycle_state,     \* CycleState
    daemon_config,   \* DaemonConfig and DisplayConfig
    iter_order,      \* iteration order of the eve_clients hash map
    buttons,         \* pointer buttons currently held down (X server)
    ptr,             \* pointer position while a button is held down
    ev,              \* the event handled last and how the handler returned
    xlog             \* requests the last handler issued, in order

cvars == <<xwin, cpc, cl, xmask>>
dvars == <<eve_clients, iter_order, cycle_state, daemon_config, buttons, ptr, ev, xlog>>
vars == <<xwin, cpc, cl, xmask, session_state, eve_clients, iter_order, cycle_state,
          daemon_config, buttons, ptr, ev, xlog>>

\* the window the classifier runs on
CW == 1

WmClassValues ==
    { << >>, <<"i", "NUL", "eve", "NUL">>, <<"i", "NUL", "oth", "NUL">>,
      <<"eve">>, <<"oth", "NUL">> }

\* (_NET_WM_STATE, WM_STATE) of a window
MinProps ==
    { [net |-> None, wm |-> None],
      [net |-> Some(<<"ABOVE", "HIDDEN">>), wm |-> Some(<<NORMAL_STATE>>)],
      [net |-> Some(<<"ABOVE">>), wm |-> Some(<<ICONIC_STATE, 0>>)],
      [net |-> Some(<< >>), wm |-> Some(<<NORMAL_STATE>>)],
      [net |-> None, wm |-> Some(<< >>)] }

XWindows ==
    { w \in [alive : {TRUE}, wm_class : WmClassValues, pid : {"none", "own", "p"},
             wine : BOOLEAN, wm_name : WmNameValues, min : MinProps] :
        w.wine => w.pid = "p" }

\* the replies the server can give for a request on the window
RepliesFor(w) == IF w.alive THEN {"Ok", "Other"} ELSE {"BadWindow", "Other"}

ClInit ==
    [class_reply |-> "-", class_res |-> Pending, pid_reply |-> "-", pid |-> "none",
     strategy |-> "-", title_reply |-> "-", title_res |-> Pending,
     min1_reply |-> "-", min2_reply |-> "-", min_res |-> Pending, ret |-> Pending]

\* number of client windows, size of a thumbnail (in grid cells), and the time
\* step of the clock (ms)
NumWin == 2
ThumbW == 2
ThumbH == 1
TickMs == 100

Win == 1..NumWin
\* a window that is never a client (window-manager internals)
OtherWin == NumWin + 1

SessionInit ==
    [last_character_by_window |-> [w \in Win |-> None],
     window_positions |-> [w \in Win |-> None],
     focus_loss_deadline |-> None]

\* the pointer position is only followed while a button is down
NoPoint == <<-1, -1>>

\* the daemon's state while only the classifier is observed
DaemonIdle ==
    /\ eve_clients = << >>
    /\ cycle_state = [current |-> None, current_window |-> None]
    /\ daemon_config = [client_minimize_on_switch |-> FALSE,
                        hide_when_no_focus |-> FALSE,
                        enabled |-> TRUE,
                        character_thumbnails |-> << >>,
                        custom_source_thumbnails |-> << >>,
                        custom_windows |-> {}]
    /\ iter_order = << >>
    /\ buttons = {}
    /\ ptr = NoPoint
    /\ ev = [kind |-> "Start"]
    /\ xlog = << >>

\* SessionState::update_last_character
update_last_character(st, window, name) ==
    [st EXCEPT !.last_character_by_window[window] = Some(name)]

InitClassify ==
    /\ xwin \in XWindows
    /\ cpc = "class"
    /\ cl = ClInit
    /\ xmask = {}
    /\ session_state = SessionInit
    /\ DaemonIdle

\* the window is destroyed while the classifier is between two queries
XDestroy ==
    /\ cpc # "done"
    /\ xwin.alive
    /\ xwin' = [xwin EXCEPT !.alive = FALSE]
    /\ UNCHANGED <<cpc, cl, xmask, session_state, dvars>>

\* check_eve_window 26-33: get_window_class(..).ok().flatten()
ClassQuery ==
    /\ cpc = "class"
    /\ \E r \in RepliesFor(xwin) :
         cl' = [cl EXCEPT !.class_reply = r,
                          !.class_res = get_window_class(r, xwin.wm_class)]
    /\ cpc' = "pid"
    /\ UNCHANGED <<xwin, xmask, session_state, dvars>>

\* check_eve_window 35-109 with the first change_window_attributes issued
\* before the process strategy is evaluated, on every window
PidQuery_mask_first ==
    /\ cpc = "pid"
    /\ \E r \in RepliesFor(xwin) :
         LET pid == pid_of_reply(r, xwin.pid)
             strat == process_strategy(pid, xwin.wine, is_known_class_of(cl.class_res))
         IN  /\ cl' = [cl EXCEPT !.pid_reply = r, !.pid = pid, !.strategy = strat,
                                 !.ret = IF strat = "inspect" THEN Pending ELSE OkNone]
             /\ cpc' = IF strat = "inspect" THEN "title" ELSE "done"
             /\ xmask' = {"PROPERTY_CHANGE"}
    /\ UNCHANGED <<xwin, session_state, dvars>>

\* check_eve_window 35-109: the PID read, the process strategy and the first
\* change_window_attributes
PidQuery ==
    /\ cpc = "pid"
    /\ \E r \in RepliesFor(xwin) :
         LET pid == pid_of_reply(r, xwin.pid)
             strat == process_strategy(pid, xwin.wine, is_known_class_of(cl.class_res))
         IN  /\ cl' = [cl EXCEPT !.pid_reply = r, !.pid = pid, !.strategy = strat,
                                 !.ret = IF strat = "inspect" THEN Pending ELSE OkNone]
             /\ cpc' = IF strat = "inspect" THEN "title" ELSE "done"
             /\ xmask' = IF strat = "inspect" THEN {"PROPERTY_CHANGE"} ELSE xmask
    /\ UNCHANGED <<xwin, session_state, dvars>>

\* check_eve_window 111-148: title verification, last-character bookkeeping and
\* the second change_window_attributes
TitleQuery ==
    /\ cpc = "title"
    /\ \E r \in RepliesFor(xwin) :
         LET res == is_window_eve(r, xwin.wm_name)
         IN  IF res.tag = "OkSome"
             THEN LET name == character_name_of(res.val)
                  IN  /\ cl' = [cl EXCEPT !.title_reply = r, !.title_res = res,
                                          !.ret = OkSome(name)]
                      /\ session_state' = update_last_character(session_state, CW, name)
                      /\ xmask' = {"PROPERTY_CHANGE", "FOCUS_CHANGE"}
                      /\ cpc' = "min1"
             ELSE /\ cl' = [cl EXCEPT !.title_reply = r, !.title_res = res,
                                      !.ret = IF res.tag = "Err" THEN ResErr ELSE OkNone]
                  /\ cpc' = "done"
                  /\ UNCHANGED <<xmask, session_state>>
    /\ UNCHANGED <<xwin, dvars>>

\* check_and_create_window 211-214: is_window_minimized, first query
MinimizedQuery1 ==
    /\ cpc = "min1"
    /\ \E r \in RepliesFor(xwin) :
         LET res == is_window_minimized_net_state(r, xwin.min.net)
         IN  /\ cl' = [cl EXCEPT !.min1_reply = r, !.min_res = res]
             /\ cpc' = IF res = Pending THEN "min2" ELSE "done"
    /\ UNCHANGED <<xwin, xmask, session_state, dvars>>

\* is_window_minimized, second query
MinimizedQuery2 ==
    /\ cpc = "min2"
    /\ \E r \in RepliesFor(xwin) :
         cl' = [cl EXCEPT !.min2_reply = r,
                          !.min_res = is_window_minimized_wm_state(r, xwin.min.wm)]
    /\ cpc' = "done"
    /\ UNCHANGED <<xwin, xmask, session_state, dvars>>

NextClassify ==
    \/ XDestroy
    \/ ClassQuery
    \/ PidQuery
    \/ TitleQuery
    \/ MinimizedQuery1
    \/ MinimizedQuery2

SpecClassify == InitClassify /\ [][NextClassify]_vars

(***************************************************************************)
(* The daemon: thumbnails, cycle state and configuration.                  *)
(***************************************************************************)
\* mouse::BUTTON_LEFT / BUTTON_RIGHT (X11 button numbers)
BUTTON_LEFT == 1
BUTTON_RIGHT == 3
Buttons == {BUTTON_LEFT, BUTTON_RIGHT}

\* NotifyMode of focus events
NotifyModes == {"Normal", "Grab", "Ungrab"}

\* delay of the auto-hide after a focus loss, in ms (state.rs 149)
FOCUS_LOSS_DELAY_MS == 100

\* ThumbnailState: Normal{focused: true}, Normal{focused: false}, Minimized, Hidden
is_focused(st) == st = "NormalFocused"
is_minimized(st) == st = "Minimized"
is_visible(t) == t.state # "Hidden"

Tracked == DOMAIN eve_clients

\* character names of the clients that can appear at each window
CharTok == <<"A", "B", "C", "D">>
CharName(w) == <<CharTok[w]>>
LoggedOutName == << >>

\* pointer positions of button events: on the row of the thumbnails, or off it
MaxX == NumWin + ThumbW - 2
Points == {<<x, 0>> : x \in 0..MaxX} \cup {<<0, ThumbH>>}
\* ... of which one over the first thumbnail only, one over the last only, one
\* off the row
ClickPoints == {<<0, 0>>, <<MaxX, 0>>, <<0, ThumbH>>}

\* CharacterSettings as stored in the profile for the character of window w
SavedSettings(w, exempt) ==
    [x |-> w - 1, y |-> 0, width |-> ThumbW, height |-> ThumbH,
     override_render_preview |-> None, exempt_from_minimize |-> exempt]

\* CharacterSettings::new: geometry only, the other fields take their defaults
CharacterSettings_new(x, y, width, height) ==
    [x |-> x, y |-> y, width |-> width, height |-> height,
     override_render_preview |-> None, exempt_from_minimize |-> FALSE]

\* a profile in which every character has saved settings, the character of
\* window 1 is exempt from minimize-on-switch and the name of the last window's
\* character is the alias of a custom rule
Profile(minimize_on_switch, hide_when_no_focus) ==
    [client_minimize_on_switch |-> minimize_on_switch,
     hide_when_no_focus |-> hide_when_no_focus,
     enabled |-> TRUE,
     character_thumbnails |->
         [n \in {CharName(w) : w \in Win} |->
             LET w == CHOOSE v \in Win : CharName(v) = n
             IN  SavedSettings(w, w = 1)],
     custom_source_thumbnails |-> << >>,
     custom_windows |-> {CharName(NumWin)},
     thumbnail_snap_threshold |-> 0,
     thumbnail_preserve_position_on_swap |-> FALSE]

\* the configurations the daemon is started with: auto-hide on or off where the
\* focus events are observed, minimize-on-switch on or off where the pointer is
DaemonConfigs == {Profile(FALSE, h) : h \in BOOLEAN}
PointerConfigs == {Profile(m, FALSE) : m \in BOOLEAN}

\* Thumbnail::is_hovered: point-in-rect test against position x dimensions
is_hovered(t, p) ==
    /\ t.x <= p[1] /\ p[1] < t.x + ThumbW
    /\ t.y <= p[2] /\ p[2] < t.y + ThumbH

\* Thumbnail::new: a mapped overlay in the unfocused state
Thumbnail_new(name, pos) ==
    [character_name |-> name, state |-> "NormalUnfocused", mapped |-> TRUE,
     x |-> pos[1], y |-> pos[2],
     input_state |-> [dragging |-> FALSE, drag_start |-> <<0, 0>>,
                      win_start |-> <<0, 0>>, snap_targets |-> << >>]]

\* Thumbnail::minimized: state -> Minimized (and a repaint)
Thumbnail_minimized(t) == [t EXCEPT !.state = "Minimized"]

\* Thumbnail::visibility: maps / unmaps the overlay; Hidden is the unmapped state
Thumbnail_visibility(t, visible) ==
    IF visible = is_visible(t) THEN t
    ELSE IF visible THEN [t EXCEPT !.mapped = TRUE, !.state = "NormalUnfocused"]
    ELSE [t EXCEPT !.mapped = FALSE, !.state = "Hidden"]

\* SessionState::get_position: the identity's saved position; else, if the
\* profile preserves positions on swap, the saved position of the identity
\* recorded for the window; else the default
DefaultPosition == <<0, 0>>
get_position(st, name, window, character_thumbnails, preserve_position_on_swap) ==
    LET last == st.last_character_by_window[window]
    IN  IF name \in DOMAIN character_thumbnails
        THEN <<character_thumbnails[name].x, character_thumbnails[name].y>>
        ELSE IF /\ preserve_position_on_swap
                /\ last.some
                /\ last.v \in DOMAIN character_thumbnails
        THEN <<character_thumbnails[last.v].x, character_thumbnails[last.v].y>>
        ELSE DefaultPosition

\* CycleState: the anchor identity and the window expected to take the focus
WindowOfName(name) ==
    IF \E w \in Tracked : eve_clients[w].character_name = name
    THEN Some(CHOOSE w \in Tracked :
                 /\ eve_clients[w].character_name = name
                 /\ \A v \in Tracked : eve_clients[v].character_name = name => w <= v)
    ELSE None

\* CycleState::set_current
set_current(cs, name) == [current |-> Some(name), current_window |-> WindowOfName(name)]

\* CycleState::set_current_by_window: follows the focus onto a tracked window
set_current_by_window(cs, window) ==
    IF window \in Tracked
    THEN [current |-> Some(eve_clients[window].character_name),
          current_window |-> Some(window)]
    ELSE cs

\* CycleState::get_current_window
get_current_window(cs) == cs.current_window

\* concatenation of a sequence of request sequences
RECURSIVE Flatten(_)
Flatten(ss) == IF ss = << >> THEN << >> ELSE Head(ss) \o Flatten(Tail(ss))

\* check_eve_window run on a window that answers every request
check_eve_window(xw) ==
    LET class_res == get_window_class("Ok", xw.wm_class)
        pid == pid_of_reply("Ok", xw.pid)
        strat == process_strategy(pid, xw.wine, is_known_class_of(class_res))
        title_res == is_window_eve("Ok", xw.wm_name)
    IN  IF strat # "inspect" THEN OkNone
        ELSE IF title_res.tag = "OkSome"
        THEN OkSome(character_name_of(title_res.val))
        ELSE title_res

\* is_window_minimized run on a window that answers every request
is_window_minimized(xw) ==
    LET first == is_window_minimized_net_state("Ok", xw.min.net)
    IN  IF first # Pending THEN first
        ELSE is_window_minimized_wm_state("Ok", xw.min.wm)

\* window properties of a shown and of a minimized client
ShownProps == [net |-> Some(<< >>), wm |-> Some(<<NORMAL_STATE>>)]
IconicProps == [net |-> Some(<<"HIDDEN">>), wm |-> Some(<<ICONIC_STATE, 0>>)]

\* a client window with the given title
ClientWindow(title, min) ==
    [alive |-> TRUE, wm_class |-> <<"i", "NUL", "eve", "NUL">>, pid |-> "p",
     wine |-> TRUE, wm_name |-> title, min |-> min]

\* the client windows that can appear as window w where the focus events are
\* observed: a logged-in client, shown or minimized
ClientWindows(w) ==
    { ClientWindow(<<"EVE", " - ", CharTok[w]>>, m) : m \in {ShownProps, IconicProps} }

\* ... and where the pointer is: a shown client, logged in or (at window 1) at
\* the login screen
PointerClientWindows(w) ==
    { ClientWindow(title, ShownProps) :
        title \in {<<"EVE", " - ", CharTok[w]>>} \cup (IF w = 1 THEN {<<"EVE">>} ELSE {}) }

\* sequences obtained by inserting w into ord at any place
InsertInto(ord, w) ==
    { SubSeq(ord, 1, i) \o <<w>> \o SubSeq(ord, i + 1, Len(ord)) : i \in 0..Len(ord) }

\* ord without w
RECURSIVE RemoveFrom(_, _)
RemoveFrom(ord, w) ==
    IF ord = << >> THEN << >>
    ELSE IF Head(ord) = w THEN RemoveFrom(Tail(ord), w)
    ELSE <<Head(ord)>> \o RemoveFrom(Tail(ord), w)

\* the classifier variables while the daemon is observed
ClassifierIdle ==
    /\ xwin = [alive |-> FALSE]
    /\ cpc = "done"
    /\ cl = ClInit
    /\ xmask = {}

Init ==
    /\ ClassifierIdle
    /\ session_state = SessionInit
    /\ eve_clients = << >>
    /\ iter_order = << >>
    /\ cycle_state = [current |-> None, current_window |-> None]
    /\ daemon_config \in DaemonConfigs
    /\ buttons = {}
    /\ ptr = NoPoint
    /\ ev = [kind |-> "Start"]
    /\ xlog = << >>

\* CreateNotify / MapNotify: check_and_create_window on a window that is not
\* tracked yet, and the insertion of the thumbnail into eve_clients
CreateNotify(w, xw) ==
    /\ w \in Win \ Tracked
    /\   LET ret == check_eve_window(xw)
         IN  IF ret.tag = "OkSome" /\ daemon_config.enabled
             THEN LET name == ret.val
                      recorded == update_last_character(session_state, w, name)
                      pos == get_position(recorded, name, w,
                                 daemon_config.character_thumbnails,
                                 daemon_config.thumbnail_preserve_position_on_swap)
                      hidden == is_window_minimized(xw).val
                      fresh == Thumbnail_new(name, pos)
                      thumb == IF hidden THEN Thumbnail_minimized(fresh) ELSE fresh
                  IN  /\ eve_clients' = (w :> thumb) @@ eve_clients
                      /\ iter_order' \in InsertInto(iter_order, w)
                      /\ session_state' = recorded
                      /\ ev' = [kind |-> "CreateNotify", w |-> w, hidden |-> hidden]
             ELSE /\ ev' = [kind |-> "CreateNotify", w |-> w, hidden |-> FALSE]
                  /\ UNCHANGED <<eve_clients, iter_order, session_state>>
    /\ xlog' = << >>
    /\ UNCHANGED <<cvars, cycle_state, daemon_config, buttons, ptr>>

\* DestroyNotify of a tracked window: the thumbnail is dropped and the cycle
\* anchor is cleared if it pointed at the window
DestroyNotify(w) ==
    /\ w \in Tracked
    /\ eve_clients' = [v \in Tracked \ {w} |-> eve_clients[v]]
    /\ iter_order' = RemoveFrom(iter_order, w)
    /\ cycle_state' = IF cycle_state.current_window = Some(w)
                      THEN [current |-> None, current_window |-> None]
                      ELSE cycle_state
    /\ ev' = [kind |-> "DestroyNotify", w |-> w]
    /\ xlog' = << >>
    /\ UNCHANGED <<cvars, session_state, daemon_config, buttons, ptr>>

\* the per-character override, else the global switch (state.rs 56-61)
should_render(t) ==
    LET settings == daemon_config.character_thumbnails
    IN  IF t.character_name \in DOMAIN settings
           /\ settings[t.character_name].override_render_preview.some
        THEN settings[t.character_name].override_render_preview.v
        ELSE daemon_config.enabled

\* the intermediate-window filter without its exception for tracked windows
focus_in_filtered_any(expected, window, tracked) ==
    expected.some /\ window # expected.v

\* a handle_focus_in without the intermediate-window filter
focus_in_filtered_never(expected, window, tracked) == FALSE

\* the intermediate-window filter of handle_focus_in (state.rs 30-41)
focus_in_filtered(expected, window, tracked) ==
    expected.some /\ window # expected.v /\ window \notin tracked

\* a border loop that leaves the other thumbnails as they are
focus_in_state_target_only(t, is_target) ==
    IF is_target
    THEN IF ~is_focused(t.state) THEN "NormalFocused" ELSE t.state
    ELSE t.state

\* the state a thumbnail is left in by the border loop of handle_focus_in
\* (state.rs 81-124)
focus_in_state(t, is_target) ==
    IF is_target
    THEN IF ~is_focused(t.state) THEN "NormalFocused" ELSE t.state
    ELSE IF is_minimized(t.state) THEN "Minimized" ELSE "NormalUnfocused"

\* a FocusIn that leaves a pending deadline in place
focus_in_deadline_kept(st) == st

\* the pending hide is cancelled (state.rs 47-51)
focus_in_deadline(st) == [st EXCEPT !.focus_loss_deadline = None]

\* handle_focus_in.  The event record keeps the expected window and whether a
\* hide was pending when the event arrived.
FocusIn(window, mode) ==
    /\ window \in Tracked \cup {OtherWin}
    /\ IF mode = "Ungrab"
          \/ focus_in_filtered(get_current_window(cycle_state), window, Tracked)
       THEN /\ ev' = [kind |-> "FocusIn", w |-> window, mode |-> mode, handled |-> FALSE,
                       expected |-> get_current_window(cycle_state),
                       pending |-> session_state.focus_loss_deadline.some]
            /\ xlog' = << >>
            /\ UNCHANGED <<eve_clients, cycle_state, session_state>>
       ELSE LET reveal == /\ daemon_config.hide_when_no_focus
                          /\ \E w \in Tracked : ~is_visible(eve_clients[w])
                revealed == [w \in Tracked |->
                                IF reveal /\ should_render(eve_clients[w])
                                THEN Thumbnail_visibility(eve_clients[w], TRUE)
                                ELSE eve_clients[w]]
                reveal_log(w) ==
                    IF reveal /\ should_render(eve_clients[w])
                    THEN (IF is_visible(eve_clients[w]) THEN << >>
                          ELSE <<[op |-> "map", w |-> w]>>)
                         \o <<[op |-> "update", w |-> w]>>
                    ELSE << >>
                border_log(w) ==
                    IF w = window
                    THEN IF ~is_focused(revealed[w].state)
                         THEN <<[op |-> "border", w |-> w, focused |-> TRUE]>>
                         ELSE << >>
                    ELSE IF is_minimized(revealed[w].state)
                         THEN <<[op |-> "minimized", w |-> w]>>
                         ELSE <<[op |-> "border", w |-> w, focused |-> FALSE]>>
            IN  /\ cycle_state' = set_current_by_window(cycle_state, window)
                /\ session_state' = focus_in_deadline(session_state)
                /\ eve_clients' = [w \in Tracked |->
                       [revealed[w] EXCEPT !.state = focus_in_state(revealed[w], w = window)]]
                /\ xlog' = Flatten([i \in 1..Len(iter_order) |-> reveal_log(iter_order[i])])
                           \o Flatten([i \in 1..Len(iter_order) |-> border_log(iter_order[i])])
                /\ ev' = [kind |-> "FocusIn", w |-> window, mode |-> mode, handled |-> TRUE,
                          expected |-> get_current_window(cycle_state),
                          pending |-> session_state.focus_loss_deadline.some]
    /\ UNCHANGED <<cvars, iter_order, daemon_config, buttons, ptr>>

\* handle_focus_out without the test of the thumbnail's state: the auto-hide is
\* scheduled when any tracked window loses the focus
FocusOut_any_state(window, mode) ==
    /\ window \in Tracked \cup {OtherWin}
    /\ IF /\ mode # "Grab"
          /\ daemon_config.hide_when_no_focus
          /\ window \in Tracked
       THEN session_state' =
                [session_state EXCEPT !.focus_loss_deadline = Some(FOCUS_LOSS_DELAY_MS)]
       ELSE UNCHANGED session_state
    /\ ev' = [kind |-> "FocusOut", w |-> window, mode |-> mode]
    /\ xlog' = << >>
    /\ UNCHANGED <<cvars, eve_clients, iter_order, cycle_state, daemon_config, buttons, ptr>>

\* handle_focus_out.  The deadline is kept as the time left until it is due.
FocusOut(window, mode) ==
    /\ window \in Tracked \cup {OtherWin}
    /\ IF /\ mode # "Grab"
          /\ daemon_config.hide_when_no_focus
          /\ window \in Tracked
          /\ is_focused(eve_clients[window].state)
       THEN session_state' =
                [session_state EXCEPT !.focus_loss_deadline = Some(FOCUS_LOSS_DELAY_MS)]
       ELSE UNCHANGED session_state
    /\ ev' = [kind |-> "FocusOut", w |-> window, mode |-> mode]
    /\ xlog' = << >>
    /\ UNCHANGED <<cvars, eve_clients, iter_order, cycle_state, daemon_config, buttons, ptr>>

\* values of _NET_WM_STATE read by handle_net_wm_state
NetWmStateValues == {None, Some(<< >>), Some(<<"HIDDEN">>)}

\* handle_net_wm_state: PropertyNotify of _NET_WM_STATE on a tracked window
\* what handle_net_wm_state returns for a reply to its property query: the
\* `?` on the reply hands every X11 error to the caller (state.rs 161-173)
net_wm_state_result(reply) == IF reply = "Ok" THEN "Ok" ELSE "Err"

NetWmState(window, reply, value) ==
    /\ window \in Tracked
    /\ IF reply = "Ok"
       THEN LET hidden == value.some /\ \E i \in 1..Len(value.v) : value.v[i] = "HIDDEN"
            IN  /\ eve_clients' =
                       [eve_clients EXCEPT ![window] =
                           IF hidden THEN Thumbnail_minimized(@) ELSE @]
                /\ xlog' = IF hidden THEN <<[op |-> "minimized", w |-> window]>> ELSE << >>
                /\ ev' = [kind |-> "NetWmState", w |-> window, hidden |-> hidden,
                          reply |-> reply, ret |-> net_wm_state_result(reply)]
       ELSE /\ ev' = [kind |-> "NetWmState", w |-> window, hidden |-> FALSE,
                       reply |-> reply, ret |-> net_wm_state_result(reply)]
            /\ xlog' = << >>
            /\ UNCHANGED eve_clients
    /\ UNCHANGED <<cvars, session_state, iter_order, cycle_state, daemon_config, buttons, ptr>>

\* time passes while a deadline is pending
Tick ==
    /\ session_state.focus_loss_deadline.some
    /\ session_state.focus_loss_deadline.v > 0
    /\ session_state' = [session_state EXCEPT
                            !.focus_loss_deadline = Some(@.v - TickMs)]
    /\ ev' = [kind |-> "Tick"]
    /\ xlog' = << >>
    /\ UNCHANGED <<cvars, eve_clients, iter_order, cycle_state, daemon_config, buttons, ptr>>

\* the dispatcher finds the deadline elapsed: every thumbnail is hidden, except
\* those forced visible by their override
DeadlineElapsed ==
    /\ session_state.focus_loss_deadline.some
    /\ session_state.focus_loss_deadline.v <= 0
    /\ LET forced(t) ==
               LET settings == daemon_config.character_thumbnails
               IN  /\ t.character_name \in DOMAIN settings
                   /\ settings[t.character_name].override_render_preview = Some(TRUE)
           hide_log(w) ==
               IF ~forced(eve_clients[w]) /\ is_visible(eve_clients[w])
               THEN <<[op |-> "unmap", w |-> w]>> ELSE << >>
       IN  /\ eve_clients' = [w \in Tracked |->
                  IF forced(eve_clients[w]) THEN eve_clients[w]
                  ELSE Thumbnail_visibility(eve_clients[w], FALSE)]
           /\ xlog' = Flatten([i \in 1..Len(iter_order) |-> hide_log(iter_order[i])])
    /\ session_state' = [session_state EXCEPT !.focus_loss_deadline = None]
    /\ ev' = [kind |-> "DeadlineElapsed"]
    /\ UNCHANGED <<cvars, iter_order, cycle_state, daemon_config, buttons, ptr>>

\* timestamps carried by button events
EventTimes == {10, 20}

\* first window in the map's iteration order that satisfies a test: 0 if none
FirstOf(candidates) ==
    LET idx == {i \in 1..Len(iter_order) : iter_order[i] \in candidates}
    IN  IF idx = {} THEN 0
        ELSE iter_order[CHOOSE i \in idx : \A j \in idx : i <= j]

\* geometry of a thumbnail's overlay as a snapping Rect
RectOf(t) == [x |-> t.x, y |-> t.y, width |-> ThumbW, height |-> ThumbH]

\* the snap targets of a press that captures every other thumbnail, hidden
\* ones included
capture_snap_targets_hidden_too(clients, order, clicked_window) ==
    LET others == SelectSeq(order, LAMBDA w : w # clicked_window)
    IN  [i \in 1..Len(others) |-> RectOf(clients[others[i]])]

\* handle_button_press 33-51: the rectangles of the other visible thumbnails,
\* in iteration order (the overlays answer the geometry query)
capture_snap_targets(clients, order, clicked_window) ==
    LET others == SelectSeq(order,
                      LAMBDA w : w # clicked_window /\ is_visible(clients[w]))
    IN  [i \in 1..Len(others) |-> RectOf(clients[others[i]])]

\* handle_button_press
ButtonPress(p, detail) ==
    /\ detail \notin buttons
    /\ buttons # {} => p = ptr
    /\ buttons' = buttons \cup {detail}
    /\ ptr' = p
    /\ LET clicked_window ==
               FirstOf({w \in Tracked : is_hovered(eve_clients[w], p)
                                         /\ is_visible(eve_clients[w])})
       IN  IF clicked_window = 0
           THEN /\ ev' = [kind |-> "ButtonPress", w |-> 0, detail |-> detail]
                /\ UNCHANGED <<eve_clients, cycle_state>>
           ELSE LET t == eve_clients[clicked_window]
                    snap_targets == capture_snap_targets(eve_clients, iter_order,
                                                         clicked_window)
                    pressed == [t.input_state EXCEPT !.drag_start = p,
                                                     !.win_start = <<t.x, t.y>>]
                IN  /\ eve_clients' =
                         [eve_clients EXCEPT ![clicked_window].input_state =
                             IF detail = BUTTON_RIGHT
                             THEN [pressed EXCEPT !.snap_targets = snap_targets,
                                                  !.dragging = TRUE]
                             ELSE pressed]
                    /\ cycle_state' = IF detail = BUTTON_LEFT
                                      THEN set_current(cycle_state, t.character_name)
                                      ELSE cycle_state
                    /\ ev' = [kind |-> "ButtonPress", w |-> clicked_window,
                              detail |-> detail]
    /\ xlog' = << >>
    /\ UNCHANGED <<cvars, session_state, iter_order, daemon_config>>

\* the exemption test that never exempts
is_exempt_never(config, name) == FALSE

\* the exemption test of minimize-on-switch (input.rs 259-264)
is_exempt(config, name) ==
    IF name \in DOMAIN config.custom_source_thumbnails
    THEN config.custom_source_thumbnails[name].exempt_from_minimize
    ELSE IF name \in DOMAIN config.character_thumbnails
    THEN config.character_thumbnails[name].exempt_from_minimize
    ELSE FALSE

\* x11::activate_window (ops.rs 18-58)
activate_window(window, timestamp) ==
    << [op |-> "configure_above", w |-> window],
       [op |-> "send_active_window", w |-> window, time |-> timestamp],
       [op |-> "send_motion", w |-> window, time |-> timestamp],
       [op |-> "flush"] >>

\* x11::minimize_window (ops.rs 61-117) in the wrong order: the ICCCM message
\* before the EWMH message, and the EWMH message sent whatever the first
\* send returned
try_minimize_window_iconic_first(window, results) ==
    LET hidden == [op |-> "send_state_add_hidden", w |-> window]
        iconic == [op |-> "send_change_state_iconic", w |-> window]
    IN  IF results[2] = "Err" THEN [sent |-> <<hidden>>, ret |-> "Err"]
        ELSE IF results[1] = "Err" THEN [sent |-> <<iconic>>, ret |-> "Err"]
        ELSE IF results[3] = "Err" THEN [sent |-> <<iconic, hidden>>, ret |-> "Err"]
        ELSE [sent |-> <<iconic, hidden, [op |-> "flush"]>>, ret |-> "Ok"]

\* x11::minimize_window (ops.rs 61-117) with the result of each request:
\* results[1] is what sending _NET_WM_STATE returns, results[2] what sending
\* WM_CHANGE_STATE returns, results[3] what the flush returns; every request
\* is followed by `?`, so the first error is returned at once
try_minimize_window(window, results) ==
    LET hidden == [op |-> "send_state_add_hidden", w |-> window]
        iconic == [op |-> "send_change_state_iconic", w |-> window]
    IN  IF results[1] = "Err" THEN [sent |-> << >>, ret |-> "Err"]
        ELSE IF results[2] = "Err" THEN [sent |-> <<hidden>>, ret |-> "Err"]
        ELSE IF results[3] = "Err" THEN [sent |-> <<hidden, iconic>>, ret |-> "Err"]
        ELSE [sent |-> <<hidden, iconic, [op |-> "flush"]>>, ret |-> "Ok"]

\* x11::unminimize_window (ops.rs 120-177), results as in try_minimize_window
try_unminimize_window(window, results) ==
    LET shown == [op |-> "send_state_remove_hidden", w |-> window]
        normal == [op |-> "send_change_state_normal", w |-> window]
    IN  IF results[1] = "Err" THEN [sent |-> << >>, ret |-> "Err"]
        ELSE IF results[2] = "Err" THEN [sent |-> <<shown>>, ret |-> "Err"]
        ELSE IF results[3] = "Err" THEN [sent |-> <<shown, normal>>, ret |-> "Err"]
        ELSE [sent |-> <<shown, normal, [op |-> "flush"]>>, ret |-> "Ok"]

\* x11::minimize_window (ops.rs 61-117) on a connection where every request
\* succeeds
minimize_window(window) ==
    << [op |-> "send_state_add_hidden", w |-> window],
       [op |-> "send_change_state_iconic", w |-> window],
       [op |-> "flush"] >>

\* minimize-on-switch that minimizes before it clears the border
minimize_on_switch_late_border(window) ==
    minimize_window(window) \o <<[op |-> "border", w |-> window, focused |-> FALSE]>>

\* one round of the minimize-on-switch loop (input.rs 271-294)
minimize_on_switch(window) ==
    <<[op |-> "border", w |-> window, focused |-> FALSE]>> \o minimize_window(window)

\* SessionState::update_window_position
update_window_position(st, window, x, y) ==
    [st EXCEPT !.window_positions[window] = Some(<<x, y>>)]

\* the state a thumbnail is left in by a left-click release (input.rs 206-243)
release_state(t, is_clicked) ==
    IF is_clicked THEN "NormalFocused"
    ELSE IF is_minimized(t.state) THEN "Minimized" ELSE "NormalUnfocused"

\* the custom-source test that knows no custom rule
is_custom_source_never(config, name) == FALSE

\* input.rs 167-172: the identity is the alias of a custom rule
is_custom_source(config, name) == name \in config.custom_windows

\* a filter that lets the clicked window through
not_clicked_any(window, clicked_src) == TRUE

\* input.rs 257: minimize-on-switch passes over the clicked window
not_clicked(window, clicked_src) == window # clicked_src

\* a release that takes every button for the left one
is_left_click_any(detail) == TRUE

\* input.rs 122: only the left button activates
is_left_click(detail) == detail = BUTTON_LEFT

\* handle_button_release
ButtonRelease(detail, time) ==
    /\ detail \in buttons
    /\ buttons' = buttons \ {detail}
    /\ ptr' = IF buttons' = {} THEN NoPoint ELSE ptr
    /\ LET clicked_key == FirstOf({w \in Tracked : is_hovered(eve_clients[w], ptr)})
           left_click == is_left_click(detail)
       IN  IF clicked_key = 0
           THEN /\ ev' = [kind |-> "ButtonRelease", w |-> 0, detail |-> detail,
                          time |-> time, dragging |-> FALSE]
                /\ xlog' = << >>
                /\ UNCHANGED <<eve_clients, cycle_state, daemon_config, session_state>>
           ELSE LET t == eve_clients[clicked_key]
                    name == t.character_name
                    save == t.input_state.dragging /\ name # LoggedOutName
                    custom == is_custom_source(daemon_config, name)
                    settings == CharacterSettings_new(t.x, t.y, ThumbW, ThumbH)
                    released == [t EXCEPT !.input_state.dragging = FALSE,
                                          !.input_state.snap_targets = << >>]
                    after_drag == [eve_clients EXCEPT ![clicked_key] = released]
                    border_log(w) ==
                        IF w = clicked_key THEN << >>
                        ELSE IF is_minimized(eve_clients[w].state)
                        THEN <<[op |-> "minimized", w |-> w]>>
                        ELSE <<[op |-> "border", w |-> w, focused |-> FALSE]>>
                    saved_config ==
                        IF ~save THEN daemon_config
                        ELSE IF custom
                        THEN [daemon_config EXCEPT !.custom_source_thumbnails =
                                 (name :> settings) @@ @]
                        ELSE [daemon_config EXCEPT !.character_thumbnails =
                                 (name :> settings) @@ @]
                    windows_to_minimize ==
                        SelectSeq(iter_order,
                            LAMBDA w : not_clicked(w, clicked_key)
                                       /\ ~is_exempt(saved_config,
                                                     eve_clients[w].character_name))
                IN  /\ cycle_state' = IF left_click
                                      THEN set_current(cycle_state, name)
                                      ELSE cycle_state
                    /\ daemon_config' = saved_config
                    /\ session_state' =
                         IF t.input_state.dragging
                         THEN update_window_position(session_state, clicked_key, t.x, t.y)
                         ELSE session_state
                    /\ eve_clients' =
                         IF left_click
                         THEN [w \in Tracked |->
                                 [after_drag[w] EXCEPT
                                    !.state = release_state(after_drag[w], w = clicked_key)]]
                         ELSE after_drag
                    /\ xlog' =
                         (IF left_click THEN activate_window(clicked_key, time) ELSE << >>)
                         \o (IF save
                             THEN <<[op |-> "ipc_position_changed", name |-> name,
                                     x |-> t.x, y |-> t.y, width |-> ThumbW,
                                     height |-> ThumbH, is_custom |-> custom]>>
                             ELSE << >>)
                         \o (IF left_click
                             THEN <<[op |-> "border", w |-> clicked_key, focused |-> TRUE]>>
                                  \o Flatten([i \in 1..Len(iter_order) |->
                                                border_log(iter_order[i])])
                                  \o <<[op |-> "flush"]>>
                             ELSE << >>)
                         \o (IF left_click /\ daemon_config.client_minimize_on_switch
                             THEN Flatten([i \in 1..Len(windows_to_minimize) |->
                                             minimize_on_switch(windows_to_minimize[i])])
                             ELSE << >>)
                    /\ ev' = [kind |-> "ButtonRelease", w |-> clicked_key, detail |-> detail,
                              time |-> time, dragging |-> t.input_state.dragging]
    /\ UNCHANGED <<cvars, iter_order>>

Next ==
    \/ \E w \in Win : \E xw \in ClientWindows(w) : CreateNotify(w, xw)
    \/ \E w \in Win : DestroyNotify(w)
    \/ \E p \in ClickPoints : ButtonPress(p, BUTTON_LEFT)
    \/ \E time \in EventTimes : ButtonRelease(BUTTON_LEFT, time)
    \/ \E w \in Win \cup {OtherWin}, mode \in NotifyModes : FocusIn(w, mode)
    \/ \E w \in Win \cup {OtherWin}, mode \in NotifyModes : FocusOut(w, mode)
    \/ \E w \in Win, reply \in {"Ok", "BadWindow"}, value \in NetWmStateValues :
           NetWmState(w, reply, value)
    \/ Tick
    \/ DeadlineElapsed

Spec == Init /\ [][Next]_vars

\* The daemon under pointer events of both buttons.
InitPointer ==
    /\ ClassifierIdle
    /\ session_state = SessionInit
    /\ eve_clients = << >>
    /\ iter_order = << >>
    /\ cycle_state = [current |-> None, current_window |-> None]
    /\ daemon_config \in PointerConfigs
    /\ buttons = {}
    /\ ptr = NoPoint
    /\ ev = [kind |-> "Start"]
    /\ xlog = << >>

NextPointer ==
    \/ \E w \in Win : \E xw \in PointerClientWindows(w) : CreateNotify(w, xw)
    \/ \E w \in Win : DestroyNotify(w)
    \/ \E p \in Points, detail \in Buttons : ButtonPress(p, detail)
    \/ \E detail \in Buttons, time \in EventTimes : ButtonRelease(detail, time)

SpecPointer == InitPointer /\ [][NextPointer]_vars

(***************************************************************************)
(* Dragging: MotionNotify and the snap solver.                             *)
(***************************************************************************)
\* pointer positions while dragging, and the snap thresholds of the profile
DragMaxX == 3
DragMaxY == 0
MaxThreshold == 1
DragPoints == {<<x, y>> : x \in 0..DragMaxX, y \in 0..DragMaxY}
\* the overlays are followed while their origin stays on this screen
OnScreen(pos) == pos[1] \in 0..DragMaxX /\ pos[2] \in 0..DragMaxY
Thresholds == 0..MaxThreshold

Abs(i) == IF i < 0 THEN -i ELSE i

\* the coordinates at which an edge of the dragged interval [pos, pos + size]
\* coincides with an edge of a neighbour [lo, lo + len]: left-left, left-right,
\* right-left, right-right
EdgeCandidates(size, lo, len) == <<lo, lo + len, lo - size, lo + len - size>>

\* one axis of the snap solver: the closest candidate within the threshold (the
\* first one on a tie), or absent
snap_axis(pos, size, neighbours, threshold) ==
    LET cands == Flatten([i \in 1..Len(neighbours) |->
                            EdgeCandidates(size, neighbours[i][1], neighbours[i][2])])
        near == {i \in 1..Len(cands) : Abs(cands[i] - pos) <= threshold}
    IN  IF near = {} THEN None
        ELSE Some(cands[CHOOSE i \in near :
                     \A j \in near : \/ Abs(cands[i] - pos) < Abs(cands[j] - pos)
                                     \/ /\ Abs(cands[i] - pos) = Abs(cands[j] - pos)
                                        /\ i <= j])

\* snapping::find_snap_position: the axes are solved independently; absent if
\* neither snaps, and always absent with threshold 0
find_snap_position(dragged, snap_targets, threshold) ==
    LET sx == snap_axis(dragged.x, dragged.width,
                        [i \in 1..Len(snap_targets) |->
                            <<snap_targets[i].x, snap_targets[i].width>>], threshold)
        sy == snap_axis(dragged.y, dragged.height,
                        [i \in 1..Len(snap_targets) |->
                            <<snap_targets[i].y, snap_targets[i].height>>], threshold)
    IN  IF threshold = 0 \/ (~sx.some /\ ~sy.some) THEN None
        ELSE Some(<<IF sx.some THEN sx.v ELSE dragged.x,
                    IF sy.some THEN sy.v ELSE dragged.y>>)

\* a drag that puts the overlay's origin under the pointer
drag_raw_position_at_pointer(win_start, drag_start, root) == root

\* handle_drag_motion 357-360: the raw position of the dragged overlay
drag_raw_position(win_start, drag_start, root) ==
    <<win_start[1] + (root[1] - drag_start[1]), win_start[2] + (root[2] - drag_start[2])>>

\* a drag motion that leaves the overlay where the drag started
drag_final_position_stays(input_state, root, threshold) == input_state.win_start

\* a drag motion that never snaps
handle_drag_motion_raw(input_state, dimensions, root, threshold) ==
    drag_raw_position(input_state.win_start, input_state.drag_start, root)

\* handle_drag_motion 343-388: the position the dragged overlay is moved to
handle_drag_motion(input_state, dimensions, root, threshold) ==
    LET new == drag_raw_position(input_state.win_start, input_state.drag_start, root)
        snapped == find_snap_position(
                       [x |-> new[1], y |-> new[2],
                        width |-> dimensions[1], height |-> dimensions[2]],
                       input_state.snap_targets, threshold)
    IN  IF snapped.some THEN snapped.v ELSE new

\* a drag motion that ignores the solver's answer
drag_final_position_unsnapped(input_state, root, threshold) ==
    drag_raw_position(input_state.win_start, input_state.drag_start, root)

\* handle_drag_motion 362-373: the snapped position, else the raw one
drag_final_position(input_state, root, threshold) ==
    handle_drag_motion(input_state, <<ThumbW, ThumbH>>, root, threshold)

\* Thumbnail::reposition
Thumbnail_reposition(t, pos) == [t EXCEPT !.x = pos[1], !.y = pos[2]]

\* handle_motion_notify: the first dragging thumbnail follows the pointer
MotionNotify(p) ==
    /\ buttons # {}
    /\ ptr' = p
    /\ LET dragging_window ==
               FirstOf({w \in Tracked : eve_clients[w].input_state.dragging})
       IN  IF dragging_window = 0
           THEN /\ ev' = [kind |-> "MotionNotify", w |-> 0, root |-> p]
                /\ xlog' = << >>
                /\ UNCHANGED eve_clients
           ELSE LET t == eve_clients[dragging_window]
                    final == drag_final_position(t.input_state, p,
                                 daemon_config.thumbnail_snap_threshold)
                IN  /\ OnScreen(final)
                    /\ eve_clients' = [eve_clients EXCEPT
                                          ![dragging_window] = Thumbnail_reposition(t, final)]
                    /\ xlog' = <<[op |-> "reposition", w |-> dragging_window,
                                  x |-> final[1], y |-> final[2]]>>
                    /\ ev' = [kind |-> "MotionNotify", w |-> dragging_window, root |-> p]
    /\ UNCHANGED <<cvars, session_state, iter_order, cycle_state, daemon_config, buttons>>

\* a profile whose saved positions leave a gap of one cell between neighbours
DragProfile(threshold) ==
    [Profile(FALSE, FALSE) EXCEPT
        !.thumbnail_snap_threshold = threshold,
        !.character_thumbnails =
            [n \in DOMAIN @ |-> [@[n] EXCEPT !.x = @ + (@ \div 1) * ThumbW]]]

\* The daemon while thumbnails are dragged with the right button.
InitDrag ==
    /\ ClassifierIdle
    /\ session_state = SessionInit
    /\ eve_clients = << >>
    /\ iter_order = << >>
    /\ cycle_state = [current |-> None, current_window |-> None]
    /\ daemon_config \in {DragProfile(t) : t \in Thresholds}
    /\ buttons = {}
    /\ ptr = NoPoint
    /\ ev = [kind |-> "Start"]
    /\ xlog = << >>

NextDrag ==
    \/ \E w \in Win : CreateNotify(w, ClientWindow(<<"EVE", " - ", CharTok[w]>>, ShownProps))
    \/ \E p \in DragPoints : ButtonPress(p, BUTTON_RIGHT)
    \/ \E p \in DragPoints : MotionNotify(p)
    \/ \E time \in EventTimes : ButtonRelease(BUTTON_RIGHT, time)

SpecDrag == InitDrag /\ [][NextDrag]_vars

(***************************************************************************)
(* One drag motion at pixel scale.                                         *)
(***************************************************************************)
\* a drag of a 300x200 overlay that starts at (100,100) with the pointer at
\* (150,150), next to one captured neighbour of the same size
ScenarioDimensions == <<300, 200>>
ScenarioTargets ==
    {<<[x |-> tx, y |-> ty, width |-> 300, height |-> 200]>> :
        tx \in {400, 405, 410, 420}, ty \in {100, 120}}
ScenarioRoots == {<<rx, ry>> : rx \in {150, 155, 160}, ry \in {150, 155, 160}}
ScenarioThresholds == {0, 5, 10}
ScenarioInputs ==
    {[kind |-> "DragInput",
      input_state |-> [dragging |-> TRUE, drag_start |-> <<150, 150>>,
                       win_start |-> <<100, 100>>, snap_targets |-> targets],
      root |-> root, threshold |-> threshold] :
        targets \in ScenarioTargets, root \in ScenarioRoots,
        threshold \in ScenarioThresholds}

InitScenario ==
    /\ ClassifierIdle
    /\ session_state = SessionInit
    /\ eve_clients = << >>
    /\ iter_order = << >>
    /\ cycle_state = [current |-> None, current_window |-> None]
    /\ daemon_config = Profile(FALSE, FALSE)
    /\ buttons = {BUTTON_RIGHT}
    /\ ptr = <<150, 150>>
    /\ ev \in ScenarioInputs
    /\ xlog = << >>

\* the motion event of the scenario is handled
ScenarioMotion ==
    /\ ev.kind = "DragInput"
    /\ LET final == handle_drag_motion(ev.input_state, ScenarioDimensions,
                                       ev.root, ev.threshold)
       IN  xlog' = <<[op |-> "reposition", w |-> 1, x |-> final[1], y |-> final[2]]>>
    /\ ev' = [ev EXCEPT !.kind = "DragMotion"]
    /\ ptr' = ev.root
    /\ UNCHANGED <<cvars, session_state, eve_clients, iter_order, cycle_state,
                   daemon_config, buttons>>

NextScenario == ScenarioMotion

SpecScenario == InitScenario /\ [][NextScenario]_vars

(***************************************************************************)
(* Hotkey cycling.                                                         *)
(***************************************************************************)
\* CycleCommand (listener.rs 12-30): the two commands that walk the group
CycleCommands == {"Forward", "Backward"}

\* the identities of the cycle group, and the orders the profile can list them in
CycleNames == {CharName(1), CharName(2), CharName(3)}
CycleGroups ==
    {g \in [1..3 -> CycleNames] : \A i, j \in 1..3 : g[i] = g[j] => i = j}

\* position of an identity in the group: 0 if it is not listed
IndexIn(group, name) ==
    IF \E i \in 1..Len(group) : group[i] = name
    THEN CHOOSE i \in 1..Len(group) : group[i] = name
    ELSE 0

\* the k-th entry met when walking the group from position start, wrapping at
\* either end; a walk without an anchor starts before the first entry (forward)
\* or after the last (backward)
WalkIndex(group, start, command, k) ==
    IF command = "Forward"
    THEN ((start + k - 1) % Len(group)) + 1
    ELSE (((IF start = 0 THEN 1 ELSE start) - 1 + Len(group) * k - k) % Len(group)) + 1

\* a walk that does not look at the skip set
cycle_next_no_skip(group, skipped, anchor, command) ==
    IF group = << >> THEN None
    ELSE Some(group[WalkIndex(group, IF anchor.some THEN IndexIn(group, anchor.v) ELSE 0,
                              command, 1)])

\* CycleState: the entry a cycle command selects, absent if every entry is skipped
cycle_next(group, skipped, anchor, command) ==
    LET start == IF anchor.some THEN IndexIn(group, anchor.v) ELSE 0
        steps == {k \in 1..Len(group) :
                     group[WalkIndex(group, start, command, k)] \notin skipped}
    IN  IF steps = {} THEN None
        ELSE Some(group[WalkIndex(group, start, command,
                                  CHOOSE k \in steps : \A m \in steps : k <= m)])

\* the profile with its cycle group
CycleProfile(group) == Profile(FALSE, FALSE) @@ [hotkey_cycle_group |-> group]

InitCycle ==
    /\ ClassifierIdle
    /\ session_state = SessionInit
    /\ eve_clients = << >>
    /\ iter_order = << >>
    /\ cycle_state = [current |-> None, current_window |-> None, skipped |-> {}]
    /\ daemon_config \in {CycleProfile(g) : g \in CycleGroups}
    /\ buttons = {}
    /\ ptr = NoPoint
    /\ ev = [kind |-> "Start"]
    /\ xlog = << >>

\* a Forward or Backward command of the hotkey listener
CycleHotkey(command, timestamp) ==
    /\ LET selected == cycle_next(daemon_config.hotkey_cycle_group, cycle_state.skipped,
                                  cycle_state.current, command)
       IN  /\ cycle_state' = IF selected.some
                             THEN [cycle_state EXCEPT !.current = selected]
                             ELSE cycle_state
           /\ ev' = [kind |-> "CycleCommand", command |-> command,
                     selected |-> selected, time |-> timestamp]
    /\ xlog' = << >>
    /\ UNCHANGED <<cvars, session_state, eve_clients, iter_order, daemon_config,
                   buttons, ptr>>

\* the skip flag of an identity of the group is toggled
ToggleSkip(name) ==
    /\ cycle_state' = [cycle_state EXCEPT !.skipped =
                          IF name \in @ THEN @ \ {name} ELSE @ \cup {name}]
    /\ ev' = [kind |-> "ToggleSkip", name |-> name]
    /\ xlog' = << >>
    /\ UNCHANGED <<cvars, session_state, eve_clients, iter_order, daemon_config,
                   buttons, ptr>>

NextCycle ==
    \/ \E command \in CycleCommands, time \in EventTimes : CycleHotkey(command, time)
    \/ \E name \in CycleNames : ToggleSkip(name)

SpecCycle == InitCycle /\ [][NextCycle]_vars

(***************************************************************************)
(* Character swaps: a window comes back under another identity.            *)
(***************************************************************************)
\* a character without saved settings
NewCharTok == CharTok[NumWin + 1]

\* the clients that can appear as window w: its saved character, a character
\* never seen before, or the login screen
SwapClientWindows(w) ==
    { ClientWindow(title, ShownProps) :
        title \in {<<"EVE", " - ", CharTok[w]>>, <<"EVE", " - ", NewCharTok>>, <<"EVE">>} }

SwapConfigs ==
    { [Profile(FALSE, FALSE) EXCEPT !.thumbnail_preserve_position_on_swap = b] :
        b \in BOOLEAN }

InitSwap ==
    /\ ClassifierIdle
    /\ session_state = SessionInit
    /\ eve_clients = << >>
    /\ iter_order = << >>
    /\ cycle_state = [current |-> None, current_window |-> None]
    /\ daemon_config \in SwapConfigs
    /\ buttons = {}
    /\ ptr = NoPoint
    /\ ev = [kind |-> "Start"]
    /\ xlog = << >>

NextSwap ==
    \/ \E w \in Win : \E xw \in SwapClientWindows(w) : CreateNotify(w, xw)
    \/ \E w \in Win : DestroyNotify(w)

SpecSwap == InitSwap /\ [][NextSwap]_vars

(***************************************************************************)
(* Pure functions: the daemon is idle, ev holds the argument and then      *)
(* the result.                                                             *)
(***************************************************************************)
PureIdle ==
    /\ ClassifierIdle
    /\ session_state = SessionInit
    /\ eve_clients = << >>
    /\ iter_order = << >>
    /\ cycle_state = [current |-> None, current_window |-> None]
    /\ daemon_config = Profile(FALSE, FALSE)
    /\ buttons = {}
    /\ ptr = NoPoint
    /\ xlog = << >>
PureVars ==
    <<cvars, session_state, eve_clients, iter_order, cycle_state, daemon_config,
      buttons, ptr, xlog>>

(***************************************************************************)
(* x11/context.rs: to_fixed.  An f32 is the dyadic rational m / 2^k.       *)
(***************************************************************************)
\* fixed_point::MULTIPLIER is 2^FIXED_SHIFT
FIXED_SHIFT == 16

RECURSIVE Pow2(_)
Pow2(n) == IF n = 0 THEN 1 ELSE 2 * Pow2(n - 1)

\* the f32 arguments: whole numbers up to screen scale and past the range of
\* 16.16, halves, quarters, values whose product has a fraction (ties among
\* them), and the f32 nearest to 1/3
F32Inputs ==
    {[m |-> n, k |-> 0] : n \in (-3..3) \cup {1080, 1920, 32767, 32768, 40000,
                                              -1080, -1920, -32767, -32768, -40000}}
    \cup {[m |-> n, k |-> j] : n \in -7..7, j \in {1, 2, 17, 18}}
    \cup {[m |-> 11184811, k |-> 25], [m |-> -11184811, k |-> 25]}

\* f32::round of m / d for d a power of two: to the nearest integer, ties away
\* from zero
f32_round(m, d) ==
    LET a == IF m < 0 THEN -m ELSE m
        q == (a \div d) + (IF 2 * (a % d) >= d THEN 1 ELSE 0)
    IN  IF m < 0 THEN -q ELSE q

\* a conversion that drops the fraction instead of rounding
to_fixed_truncated(v) ==
    IF v.k <= FIXED_SHIFT
    THEN IF v.k < FIXED_SHIFT /\ v.m >= Pow2(15 + v.k) THEN 2147483647
         ELSE IF v.k < FIXED_SHIFT /\ v.m <= -Pow2(15 + v.k) THEN -2147483647 - 1
         ELSE v.m * Pow2(FIXED_SHIFT - v.k)
    ELSE LET a == IF v.m < 0 THEN -v.m ELSE v.m
             q == a \div Pow2(v.k - FIXED_SHIFT)
         IN  IF v.m < 0 THEN -q ELSE q

\* to_fixed (context.rs 232-234): (v * MULTIPLIER).round() as i32; the product
\* by a power of two is exact and the cast saturates
to_fixed(v) ==
    IF v.k <= FIXED_SHIFT
    THEN IF v.k < FIXED_SHIFT /\ v.m >= Pow2(15 + v.k) THEN 2147483647
         ELSE IF v.k < FIXED_SHIFT /\ v.m <= -Pow2(15 + v.k) THEN -2147483647 - 1
         ELSE v.m * Pow2(FIXED_SHIFT - v.k)
    ELSE f32_round(v.m, Pow2(v.k - FIXED_SHIFT))

InitFixed ==
    /\ PureIdle
    /\ ev \in {[kind |-> "f32", v |-> v] : v \in F32Inputs}

ToFixed ==
    /\ ev.kind = "f32"
    /\ ev' = [kind |-> "to_fixed", v |-> ev.v, ret |-> to_fixed(ev.v)]
    /\ UNCHANGED PureVars

NextFixed == ToFixed

SpecFixed == InitFixed /\ [][NextFixed]_vars

(***************************************************************************)
(* main.rs: the end of the daemon process.                                 *)
(***************************************************************************)
\* main 57-72 in daemon mode: what main returns for a result of run_daemon
main_daemon(run_result) == "Ok"

\* the exit status of a process whose main returns Result<()>
process_exit_status(main_result) == IF main_result = "Ok" THEN 0 ELSE 1

\* run_daemon returns: cleanly, or with the error of a lost connection
DaemonExit(run_result) ==
    /\ ev.kind # "Exit"
    /\ ev' = [kind |-> "Exit", run |-> run_result,
              stderr |-> IF run_result = "Err" THEN <<"Daemon error">> ELSE << >>,
              status |-> process_exit_status(main_daemon(run_result))]
    /\ xlog' = << >>
    /\ UNCHANGED <<cvars, session_state, eve_clients, iter_order, cycle_state,
                   daemon_config, buttons, ptr>>

\* the daemon handles window events until run_daemon returns
NextMain ==
    \/ ev.kind # "Exit" /\ NextSwap
    \/ \E run_result \in {"Ok", "Err"} : DaemonExit(run_result)

SpecMain == InitSwap /\ [][NextMain]_vars

(***************************************************************************)
(* preview/font.rs: building the font renderer.                            *)
(***************************************************************************)
\* what the system answers while the renderer is built: the TrueType font
\* selection, reading and parsing the selected file, and the two requests that
\* open the X11 core font
FontSizes == {8, 12, 16}
FontEnvs ==
    [select : {"Ok", "Err"}, read : {"Ok", "Err"}, parse : {"Ok", "Err"},
     generate_id : {"Ok", "Err"}, open_font : {"Ok", "Err"}, size : FontSizes]

\* FontRenderer::from_path (font.rs 29-47)
from_path(env) ==
    IF env.read = "Err" THEN [tag |-> "Err", error |-> "read"]
    ELSE IF env.parse = "Err" THEN [tag |-> "Err", error |-> "parse"]
    ELSE [tag |-> "Ok", renderer |-> "Fontdue", size |-> env.size]

\* FontRenderer::from_system_font (font.rs 73-96)
from_system_font(env) ==
    IF env.select = "Ok" THEN from_path(env)
    ELSE IF env.generate_id = "Err" THEN [tag |-> "Err", error |-> "generate_id"]
    ELSE IF env.open_font = "Err" THEN [tag |-> "Err", error |-> "open_font"]
    ELSE [tag |-> "Ok", renderer |-> "X11Fallback", size |-> env.size]

InitFont ==
    /\ PureIdle
    /\ ev \in {[kind |-> "FontEnv", env |-> env] : env \in FontEnvs}

FromSystemFont ==
    /\ ev.kind = "FontEnv"
    /\ ev' = [kind |-> "from_system_font", env |-> ev.env, ret |-> from_system_font(ev.env)]
    /\ UNCHANGED PureVars

NextFont == FromSystemFont

SpecFont == InitFont /\ [][NextFont]_vars

(***************************************************************************)
(* x11/ops.rs: minimizing and restoring a window on a connection whose     *)
(* requests can fail.                                                      *)
(***************************************************************************)
OpsWindows == Win \cup {OtherWin, OtherWin + 1}
OpsResults == [1..3 -> {"Ok", "Err"}]
OpsCalls == [op : {"minimize_window", "unminimize_window"}, window : OpsWindows,
             results : OpsResults]
OpsVars ==
    <<cvars, session_state, eve_clients, iter_order, cycle_state, daemon_config,
      buttons, ptr>>

InitOps ==
    /\ PureIdle
    /\ ev \in {[kind |-> "OpsCall", call |-> c] : c \in OpsCalls}

MinimizeWindow ==
    /\ ev.kind = "OpsCall" /\ ev.call.op = "minimize_window"
    /\ LET r == try_minimize_window(ev.call.window, ev.call.results)
       IN  /\ xlog' = r.sent
           /\ ev' = [kind |-> "minimize_window", call |-> ev.call, ret |-> r.ret]
    /\ UNCHANGED OpsVars

UnminimizeWindow ==
    /\ ev.kind = "OpsCall" /\ ev.call.op = "unminimize_window"
    /\ LET r == try_unminimize_window(ev.call.window, ev.call.results)
       IN  /\ xlog' = r.sent
           /\ ev' = [kind |-> "unminimize_window", call |-> ev.call, ret |-> r.ret]
    /\ UNCHANGED OpsVars

NextOps == MinimizeWindow \/ UnminimizeWindow

SpecOps == InitOps /\ [][NextOps]_vars

(***************************************************************************)
(* preview/window_detection.rs: the dimensions a new thumbnail is given.   *)
(***************************************************************************)
StoredSizes == 0..2
Screens == {<<4, 2>>, <<8, 6>>}
SizeNames == {CharName(1), CharName(2)}
\* the saved settings of any subset of the characters, with any stored size
SizeSettings ==
    UNION {[D -> {CharacterSettings_new(0, 0, width, height) :
                     width \in StoredSizes, height \in StoredSizes}] :
           D \in SUBSET SizeNames}

\* DaemonConfig::default_thumbnail_size: the profile-wide default, scaled to
\* the size of the screen
default_thumbnail_size(screen_width, screen_height) ==
    <<screen_width \div 2, screen_height \div 2>>

\* check_and_create_window, `let dimensions = ...` (window_detection.rs
\* 181-197), with the zero test left out
dimensions_at_creation_as_stored(character_thumbnails, character_name, screen) ==
    IF character_name \in DOMAIN character_thumbnails
    THEN <<character_thumbnails[character_name].width,
           character_thumbnails[character_name].height>>
    ELSE default_thumbnail_size(screen[1], screen[2])

\* check_and_create_window, `let dimensions = ...` (window_detection.rs 181-197)
dimensions_at_creation(character_thumbnails, character_name, screen) ==
    IF character_name \in DOMAIN character_thumbnails
    THEN LET settings == character_thumbnails[character_name]
         IN  IF settings.width = 0 \/ settings.height = 0
             THEN default_thumbnail_size(screen[1], screen[2])
             ELSE <<settings.width, settings.height>>
    ELSE default_thumbnail_size(screen[1], screen[2])

InitSize ==
    /\ PureIdle
    /\ ev \in {[kind |-> "SizeCall", character_thumbnails |-> ct,
                character_name |-> n, screen |-> sc] :
               ct \in SizeSettings, n \in SizeNames, sc \in Screens}

CreateDimensions ==
    /\ ev.kind = "SizeCall"
    /\ ev' = [kind |-> "dimensions", character_thumbnails |-> ev.character_thumbnails,
              character_name |-> ev.character_name, screen |-> ev.screen,
              ret |-> dimensions_at_creation(ev.character_thumbnails,
                                             ev.character_name, ev.screen)]
    /\ UNCHANGED PureVars

NextSize == CreateDimensions

SpecSize == InitSize /\ [][NextSize]_vars

(***************************************************************************)
(* preview/font.rs: rendering a label to an ARGB bitmap.                   *)
(***************************************************************************)
MaxTextLen == 2
\* what fontdue's rasterize returns for the characters of the labels: metrics
\* (advance in half pixels) and a coverage bitmap of width x height bytes
Glyphs ==
    [a |-> [width |-> 1, height |-> 1, ymin |-> 0, advance2 |-> 3, bitmap |-> <<255>>],
     g |-> [width |-> 1, height |-> 2, ymin |-> -1, advance2 |-> 2, bitmap |-> <<128, 1>>],
     q |-> [width |-> 2, height |-> 1, ymin |-> 1, advance2 |-> 0, bitmap |-> <<0, 85>>],
     s |-> [width |-> 0, height |-> 0, ymin |-> 0, advance2 |-> 1, bitmap |-> << >>]]
rasterize(ch) == Glyphs[ch]
Texts == UNION {[1..n -> DOMAIN Glyphs] : n \in 0..MaxTextLen}
\* foreground colours, ARGB, one byte a channel
FgColors == [a : {0, 128, 255}, r : {0, 255}, g : {128}, b : {0, 3}]

\* the pen position (in half pixels) before the i-th character
RECURSIVE advance_before(_, _)
advance_before(text, i) ==
    IF i <= 1 THEN 0
    ELSE advance_before(text, i - 1) + rasterize(text[i - 1]).advance2

MaxOf(S) == CHOOSE m \in S : \A n \in S : n <= m

\* render_text 195-201: one channel of a pixel, (fg / 255.0 * coverage / 255.0
\* * 255.0) as u32; in f32 this is the truncated quotient for all byte values
scale_channel(channel, coverage) == (channel * coverage) \div 255

\* render_text 195-201: the pixel written for a coverage > 0; the four bytes
\* are kept apart rather than packed into one u32
pixel_of(fg_color, coverage) ==
    [a |-> scale_channel(fg_color.a, coverage),
     r |-> scale_channel(fg_color.r, coverage),
     g |-> scale_channel(fg_color.g, coverage),
     b |-> scale_channel(fg_color.b, coverage)]

EmptyText == [width |-> 0, height |-> 0, data |-> << >>]

\* FontRenderer::render_text (font.rs 121-215)
render_text(renderer, text, fg_color) ==
    IF renderer = "X11Fallback" \/ text = << >> THEN EmptyText
    ELSE
    LET n == Len(text)
        width == (advance_before(text, n + 1) + 1) \div 2
        max_ascent == MaxOf({0} \cup {rasterize(text[i]).height + rasterize(text[i]).ymin :
                                         i \in 1..n})
        max_descent == MaxOf({0} \cup {-rasterize(text[i]).ymin : i \in 1..n})
        height == max_ascent + max_descent
        x_offset(i) == advance_before(text, i) \div 2
        baseline_y(i) == max_ascent - (rasterize(text[i]).height + rasterize(text[i]).ymin)
        \* coverage of glyph i at pixel (px, py), 0 outside the glyph
        coverage(i, px, py) ==
            LET m == rasterize(text[i])
                gx == px - x_offset(i)
                gy == py - baseline_y(i)
            IN  IF gx >= 0 /\ gx < m.width /\ gy >= 0 /\ gy < m.height
                THEN m.bitmap[gy * m.width + gx + 1]
                ELSE 0
        \* the glyphs are drawn in order: the last one that covers a pixel wins
        painters(px, py) == {i \in 1..n : coverage(i, px, py) > 0}
        pixel_at(px, py) ==
            IF painters(px, py) = {} THEN [a |-> 0, r |-> 0, g |-> 0, b |-> 0]
            ELSE pixel_of(fg_color, coverage(MaxOf(painters(px, py)), px, py))
    IN  IF width = 0 \/ height = 0 THEN EmptyText
        ELSE [width |-> width, height |-> height,
              data |-> [k \in 1..(width * height) |->
                           pixel_at((k - 1) % width, (k - 1) \div width)]]

InitRender ==
    /\ PureIdle
    /\ ev \in {[kind |-> "RenderCall", renderer |-> rd, text |-> t, fg_color |-> c] :
               rd \in {"Fontdue", "X11Fallback"}, t \in Texts, c \in FgColors}

RenderText ==
    /\ ev.kind = "RenderCall"
    /\ ev' = [kind |-> "render_text", renderer |-> ev.renderer, text |-> ev.text,
              fg_color |-> ev.fg_color,
              ret |-> render_text(ev.renderer, ev.text, ev.fg_color)]
    /\ UNCHANGED PureVars

NextRender == RenderText

SpecRender == InitRender /\ [][NextRender]_vars

(***************************************************************************)
(* Presses while some thumbnails are hidden by the auto-hide.              *)
(***************************************************************************)
InitCapture ==
    /\ ClassifierIdle
    /\ session_state = SessionInit
    /\ eve_clients = << >>
    /\ iter_order = << >>
    /\ cycle_state = [current |-> None, current_window |-> None]
    /\ daemon_config = Profile(FALSE, TRUE)
    /\ buttons = {}
    /\ ptr = NoPoint
    /\ ev = [kind |-> "Start"]
    /\ xlog = << >>

NextCapture ==
    \/ \E w \in Win, props \in {ShownProps, IconicProps} :
           CreateNotify(w, ClientWindow(<<"EVE", " - ", CharTok[w]>>, props))
    \/ \E p \in ClickPoints, detail \in Buttons : ButtonPress(p, detail)
    \/ \E detail \in Buttons, time \in EventTimes : ButtonRelease(detail, time)
    \/ \E w \in Win \cup {OtherWin} : FocusIn(w, "Normal")
    \/ \E w \in Win \cup {OtherWin} : FocusOut(w, "Normal")
    \/ Tick
    \/ DeadlineElapsed

SpecCapture == InitCapture /\ [][NextCapture]_vars

(***************************************************************************)
(* manager/components/behavior_settings.rs: the backup panel.  ev holds    *)
(* the BehaviorSettingsState the call left behind, the buttons clicked in  *)
(* the frame and the action returned; xlog the BackupManager calls made.   *)
(* The left column (behaviour checkboxes) and the automatic-backup sliders *)
(* do not touch the BehaviorSettingsState and are left out.                *)
(***************************************************************************)
\* backup files, newest first in a listing
Backups == {"b1", "b2"}
\* what BackupManager::list_backups returns
Listings ==
    {[ok |-> FALSE]} \cup
    {[ok |-> TRUE, list |-> l] : l \in {<< >>, <<"b1">>, <<"b2", "b1">>}}
\* the buttons of the panel, and the most that are clicked in one frame
PanelButtons ==
    {"create", "refresh", "restore", "yes_restore", "cancel_restore",
     "delete", "yes_delete", "cancel_delete"}
MaxClicks == 2
ClickSets == {c \in SUBSET PanelButtons : Cardinality(c) <= MaxClicks}

BehaviorSettingsState_new ==
    [backup_list |-> << >>, selected_backup |-> None,
     show_restore_confirm |-> FALSE, show_delete_confirm |-> FALSE,
     status_message |-> None]

refresh_backups(state, listing) ==
    IF listing.ok
    THEN LET selection_invalid ==
                 /\ state.selected_backup # None
                 /\ \A i \in 1..Len(listing.list) :
                        listing.list[i] # state.selected_backup.v
         IN  [state EXCEPT
                !.backup_list = listing.list,
                !.selected_backup =
                    IF selection_invalid \/ state.selected_backup = None
                    THEN IF listing.list = << >> THEN None ELSE Some(listing.list[1])
                    ELSE @]
    ELSE [state EXCEPT !.status_message = Some("list_failed")]

\* the "Create Backup" button
create_flow(r, clicks, create_ok, listing) ==
    IF "create" \in clicks
    THEN IF create_ok
         THEN [r EXCEPT
                 !.state = refresh_backups(
                               [r.state EXCEPT !.status_message = Some("created")],
                               listing),
                 !.calls = r.calls \o <<[op |-> "create_backup"], [op |-> "list_backups"]>>]
         ELSE [r EXCEPT !.state.status_message = Some("backup_failed"),
                        !.calls = Append(r.calls, [op |-> "create_backup"])]
    ELSE r

\* the refresh button next to the selector
refresh_flow(r, clicks, listing) ==
    IF "refresh" \in clicks
    THEN [r EXCEPT !.state = refresh_backups(r.state, listing),
                   !.calls = Append(r.calls, [op |-> "list_backups"])]
    ELSE r

\* a Restore click runs the restore at once
restore_flow_unconfirmed(r, selected, clicks, restore_ok) ==
    IF "restore" \in clicks \/ (r.state.show_restore_confirm /\ "yes_restore" \in clicks)
    THEN [r EXCEPT !.state.show_restore_confirm = FALSE,
                   !.state.status_message =
                       Some(IF restore_ok THEN "restored" ELSE "restore_failed"),
                   !.action = IF restore_ok THEN "RestoreTriggered" ELSE @,
                   !.calls = Append(r.calls, [op |-> "restore_backup", file |-> selected])]
    ELSE r

\* the restore button flow
restore_flow(r, selected, clicks, restore_ok) ==
    IF r.state.show_restore_confirm
    THEN LET r1 == IF "yes_restore" \in clicks
                   THEN [r EXCEPT
                           !.state.status_message =
                               Some(IF restore_ok THEN "restored" ELSE "restore_failed"),
                           !.state.show_restore_confirm = FALSE,
                           !.action = IF restore_ok THEN "RestoreTriggered" ELSE @,
                           !.calls = Append(r.calls, [op |-> "restore_backup",
                                                      file |-> selected])]
                   ELSE r
         IN  IF "cancel_restore" \in clicks
             THEN [r1 EXCEPT !.state.show_restore_confirm = FALSE,
                             !.state.status_message = None]
             ELSE r1
    ELSE IF "restore" \in clicks
         THEN [r EXCEPT !.state.show_restore_confirm = TRUE,
                        !.state.show_delete_confirm = FALSE,
                        !.state.status_message = Some("warn_restore")]
         ELSE r

\* the delete button flow, drawn only while no restore awaits confirmation
delete_flow(r, selected, clicks, delete_ok, listing) ==
    IF r.state.show_restore_confirm
    THEN r
    ELSE IF r.state.show_delete_confirm
         THEN LET r1 == IF "yes_delete" \in clicks
                        THEN IF delete_ok
                             THEN [r EXCEPT
                                     !.state =
                                         [refresh_backups(
                                              [r.state EXCEPT
                                                  !.status_message = Some("deleted")],
                                              listing)
                                          EXCEPT !.show_delete_confirm = FALSE],
                                     !.calls = r.calls \o
                                         <<[op |-> "delete_backup", file |-> selected],
                                           [op |-> "list_backups"]>>]
                             ELSE [r EXCEPT
                                     !.state.status_message = Some("delete_failed"),
                                     !.calls = Append(r.calls,
                                                      [op |-> "delete_backup",
                                                       file |-> selected])]
                        ELSE r
              IN  IF "cancel_delete" \in clicks
                  THEN [r1 EXCEPT !.state.show_delete_confirm = FALSE,
                                  !.state.status_message = None]
                  ELSE r1
         ELSE IF "delete" \in clicks
              THEN [r EXCEPT !.state.show_delete_confirm = TRUE,
                             !.state.show_restore_confirm = FALSE,
                             !.state.status_message = Some("warn_delete")]
              ELSE r

\* the outcome of a call matters only in a frame that makes the call
OutcomesIf(clicks, button) == IF button \in clicks THEN BOOLEAN ELSE {TRUE}
ListingsIf(clicks, button) == IF button \in clicks THEN Listings ELSE {[ok |-> FALSE]}

PanelKinds == {"new", "refresh_backups", "ui"}

InitPanel ==
    /\ PureIdle
    /\ ev = [kind |-> "new", state |-> BehaviorSettingsState_new, clicks |-> {},
             action |-> "None"]

\* BehaviorSettingsState::refresh_backups called by the owner of the state
\* (Default::default, a reload)
RefreshBackups ==
    /\ ev.kind \in PanelKinds
    /\ \E listing \in Listings :
          ev' = [kind |-> "refresh_backups",
                 state |-> refresh_backups(ev.state, listing),
                 clicks |-> {}, action |-> "None"]
    /\ xlog' = <<[op |-> "list_backups"]>>
    /\ UNCHANGED OpsVars

\* one frame of ui(): the entries of the selector are those of backup_list
Ui ==
    /\ ev.kind \in PanelKinds
    /\ \E clicks \in ClickSets :
       \E create_ok \in OutcomesIf(clicks, "create"),
          restore_ok \in OutcomesIf(clicks, "yes_restore"),
          delete_ok \in OutcomesIf(clicks, "yes_delete"),
          l1 \in ListingsIf(clicks, "create"),
          l2 \in ListingsIf(clicks, "refresh"),
          l3 \in ListingsIf(clicks, "yes_delete") :
          LET r0 == [state |-> ev.state, action |-> "None", calls |-> << >>]
              r1 == create_flow(r0, clicks, create_ok, l1)
          IN  \E pick \in {None} \cup {Some(r1.state.backup_list[i]) :
                                           i \in 1..Len(r1.state.backup_list)} :
                 LET r2 == IF pick = None THEN r1
                           ELSE [r1 EXCEPT !.state.selected_backup = pick]
                     r3 == refresh_flow(r2, clicks, l2)
                     selected_opt == r3.state.selected_backup
                     r4 == IF selected_opt = None THEN r3
                           ELSE delete_flow(
                                    restore_flow(r3, selected_opt.v, clicks, restore_ok),
                                    selected_opt.v, clicks, delete_ok, l3)
                 IN  /\ ev' = [kind |-> "ui", state |-> r4.state, clicks |-> clicks,
                               action |-> r4.action]
                     /\ xlog' = r4.calls
    /\ UNCHANGED OpsVars

NextPanel == RefreshBackups \/ Ui

SpecPanel == InitPanel /\ [][NextPanel]_vars

(***************************************************************************)
(* Properties of the classifier and the window queries.                    *)
(***************************************************************************)
ClassKnown == is_known_class_of(cl.class_res)
TitleInspected == cl.title_reply # "-"
Accepted == cl.ret.tag = "OkSome"

\* C8 (as stated): a window is accepted only if the class gate, the process
\* gate and the title gate all accept it, and a window whose class does not
\* match is never passed to title verification.
C8_AllThreeGatesAgree ==
    /\ Accepted => /\ ClassKnown
                   /\ cl.pid # "own"
                   /\ cl.title_res.tag = "OkSome"
    /\ TitleInspected => ClassKnown

\* C8 (amended): a window is accepted only if the title gate accepts it, its
\* PID is not the daemon's own, and its class matches or its process is
\* identified as Wine/Proton; a window whose class does not match is passed to
\* title verification only when its PID is that of a Wine/Proton process.
C8_GatePipeline ==
    /\ Accepted => /\ cl.title_res.tag = "OkSome"
                   /\ cl.pid # "own"
                   /\ ClassKnown \/ (cl.pid = "p" /\ xwin.wine)
    /\ (TitleInspected /\ ~ClassKnown) => (cl.pid = "p" /\ xwin.wine)

C8_Witness ==
    /\ Accepted
    /\ ~ClassKnown
    /\ cl.class_res.tag = "OkSome"
    /\ cl.pid = "p"
    /\ xwin.wine

\* the title as the gate sees it, and the claim's three cases written out
C9_Title == from_utf8_lossy(xwin.wm_name)
C9_HasPrefix ==
    /\ Len(C9_Title) >= Len(WINDOW_TITLE_PREFIX)
    /\ \A i \in 1..Len(WINDOW_TITLE_PREFIX) : C9_Title[i] = WINDOW_TITLE_PREFIX[i]
C9_Remainder ==
    [i \in 1..(Len(C9_Title) - Len(WINDOW_TITLE_PREFIX)) |->
        C9_Title[i + Len(WINDOW_TITLE_PREFIX)]]
C9_MarkerIn(s) ==
    \E i \in 1..Len(s) :
        \A j \in 1..Len(STEAM_APP_MARKER) :
            i + j - 1 <= Len(s) /\ s[i + j - 1] = STEAM_APP_MARKER[j]

\* C9: the title gate gives LoggedIn(remainder) for a title with the known
\* prefix whose remainder has no container marker, LoggedOut for the
\* logged-out title, and rejects every other title, in particular every title
\* containing the container marker.
C9_TitleGateOutcome ==
    cl.title_reply = "Ok" =>
        /\ (C9_HasPrefix /\ ~C9_MarkerIn(C9_Remainder))
              => cl.title_res = OkSome(LoggedIn(C9_Remainder))
        /\ (C9_Title = LOGGED_OUT_TITLE) => cl.title_res = OkSome(LoggedOut)
        /\ (~(C9_HasPrefix /\ ~C9_MarkerIn(C9_Remainder)) /\ C9_Title # LOGGED_OUT_TITLE)
              => cl.title_res = OkNone
        /\ C9_MarkerIn(C9_Title) => cl.title_res = OkNone

C9_Witness ==
    /\ cl.title_reply = "Ok"
    /\ C9_HasPrefix
    /\ C9_MarkerIn(C9_Remainder)
    /\ cl.title_res = OkNone

\* C10: a title, class or minimized-state query answered with the X11 Window
\* error (the window was destroyed before the reply) returns the absent value
\* (None / false), never an error.
C10_DestroyedGivesAbsent ==
    /\ cl.class_reply = "BadWindow" => cl.class_res = OkNone
    /\ cl.title_reply = "BadWindow" => cl.title_res = OkNone
    /\ cl.min1_reply = "BadWindow" => cl.min_res = OkBool(FALSE)
    /\ cl.min2_reply = "BadWindow" => cl.min_res = OkBool(FALSE)

\* the window is destroyed between the two queries of is_window_minimized
C10_Witness ==
    /\ ~xwin.alive
    /\ cl.min1_reply = "Ok"
    /\ cl.min2_reply = "BadWindow"
    /\ cl.min_res = OkBool(FALSE)

(***************************************************************************)
(* Properties of the daemon's event handlers.                              *)
(***************************************************************************)
\* the thumbnails in the focused state, and border coherence around a target
C1_Focused == {w \in Tracked : is_focused(eve_clients[w].state)}
C1_Coherent(target) ==
    /\ C1_Focused = (IF target \in Tracked THEN {target} ELSE {})
    /\ \A w \in Tracked \ C1_Focused :
          eve_clients[w].state \in {"NormalUnfocused", "Minimized"}

\* C1 (as stated): after any ButtonRelease or FocusIn has been handled,
\* exactly one tracked thumbnail is Normal{focused:true} (or none, if the
\* window of the event is untracked) and every other tracked thumbnail is
\* Normal{focused:false} or Minimized.
C1_BorderCoherence ==
    ev.kind \in {"ButtonRelease", "FocusIn"} =>
        /\ \/ Cardinality(C1_Focused) = 1
           \/ C1_Focused = {} /\ ev.w \notin Tracked
        /\ \A w \in Tracked \ C1_Focused :
              eve_clients[w].state \in {"NormalUnfocused", "Minimized"}

\* C1 (amended): after a left-button ButtonRelease over a thumbnail, and after
\* a FocusIn that is not ignored (mode other than Ungrab, not dropped by the
\* intermediate-window filter), the clicked / focused thumbnail is the only
\* one in Normal{focused:true} (none if the FocusIn window is untracked) and
\* every other tracked thumbnail is Normal{focused:false} or Minimized.
C1_CoherenceWhenHandled ==
    /\ (ev.kind = "ButtonRelease" /\ ev.detail = BUTTON_LEFT /\ ev.w \in Tracked)
          => C1_Coherent(ev.w)
    /\ (ev.kind = "FocusIn" /\ ev.handled) => C1_Coherent(ev.w)

\* the focus moves onto a tracked window while another thumbnail is minimized
\* and an auto-hide had hidden the thumbnails
C1_Witness ==
    /\ ev.kind = "FocusIn"
    /\ ev.handled
    /\ ev.w \in Tracked
    /\ \E i \in 1..Len(xlog) : xlog[i].op = "map"
    /\ \E v \in Tracked \ {ev.w} : is_minimized(eve_clients[v].state)

\* the identities whose stored settings exempt them, and the windows sent a
\* minimize command by the last handler
C2_StoredExempt(w) ==
    LET n == eve_clients[w].character_name
    IN  \/ /\ n \in DOMAIN daemon_config.custom_source_thumbnails
           /\ daemon_config.custom_source_thumbnails[n].exempt_from_minimize
        \/ /\ n \in DOMAIN daemon_config.character_thumbnails
           /\ daemon_config.character_thumbnails[n].exempt_from_minimize
C2_Minimized ==
    {xlog[i].w : i \in {j \in 1..Len(xlog) :
                          xlog[j].op \in {"send_state_add_hidden",
                                          "send_change_state_iconic"}}}

\* C2: the minimize-on-switch step of the left-click release never sends a
\* minimize command to the source window of an identity whose stored settings
\* have exempt_from_minimize = true.
C2_ExemptNeverMinimized ==
    \A w \in C2_Minimized : w \in Tracked /\ ~C2_StoredExempt(w)

\* a left click with minimize-on-switch on, while an exempt identity is among
\* the other tracked windows
C2_Witness ==
    /\ ev.kind = "ButtonRelease"
    /\ ev.detail = BUTTON_LEFT
    /\ ev.w \in Tracked
    /\ daemon_config.client_minimize_on_switch
    /\ \E w \in Tracked \ {ev.w} : C2_StoredExempt(w)

\* C3: for every window minimized by minimize-on-switch, the unfocused border
\* repaint of its overlay is issued before the minimize command is sent: the
\* repaint is the request just before the command.
C3_BorderBeforeMinimize ==
    \A i \in 1..Len(xlog) :
        xlog[i].op = "send_state_add_hidden" =>
            /\ i > 1
            /\ xlog[i - 1] = [op |-> "border", w |-> xlog[i].w, focused |-> FALSE]

\* a left click that minimizes another window
C3_Witness ==
    /\ ev.kind = "ButtonRelease"
    /\ \E i \in 1..Len(xlog) :
          xlog[i].op = "send_state_add_hidden" /\ xlog[i].w # ev.w

\* C4 (as stated): while a thumbnail is dragging, no handled event changes
\* its snap_targets.
C4_SnapTargetsFrozen ==
    [][\A w \in Tracked \cap Tracked' :
          (eve_clients[w].input_state.dragging /\ eve_clients'[w].input_state.dragging)
             => eve_clients'[w].input_state.snap_targets
                   = eve_clients[w].input_state.snap_targets]_vars

\* C5 (as stated): any FocusIn on a tracked window clears the auto-hide
\* deadline.
C5_AnyFocusInClears ==
    (ev.kind = "FocusIn" /\ ev.w \in Tracked)
        => ~session_state.focus_loss_deadline.some

\* C5 (amended): a FocusIn on a tracked window whose mode is not Ungrab clears
\* the auto-hide deadline a FocusOut has scheduled; a FocusIn with mode Ungrab
\* leaves it pending.
C5_FocusInClearsDeadline ==
    /\ (ev.kind = "FocusIn" /\ ev.w \in Tracked /\ ev.mode # "Ungrab")
          => ~session_state.focus_loss_deadline.some
    /\ (ev.kind = "FocusIn" /\ ev.mode = "Ungrab")
          => session_state.focus_loss_deadline.some = ev.pending

\* a FocusIn on a tracked window arrives while a hide is pending
C5_Witness ==
    /\ ev.kind = "FocusIn"
    /\ ev.w \in Tracked
    /\ ev.mode # "Ungrab"
    /\ ev.pending
    /\ ~session_state.focus_loss_deadline.some

\* C6: the intermediate-window filter never drops a FocusIn whose window is
\* tracked: whatever the expected window, a FocusIn with a mode other than
\* Ungrab on a tracked window is handled, syncs the cycle anchor to that
\* window and leaves it the one thumbnail with the focused border.
C6_TrackedFocusInNeverDropped ==
    (ev.kind = "FocusIn" /\ ev.mode # "Ungrab" /\ ev.w \in Tracked) =>
        /\ ev.handled
        /\ cycle_state.current_window = Some(ev.w)
        /\ cycle_state.current = Some(eve_clients[ev.w].character_name)
        /\ C1_Focused = {ev.w}

\* the focus lands on a tracked window other than the expected one
C6_Witness ==
    /\ ev.kind = "FocusIn"
    /\ ev.handled
    /\ ev.w \in Tracked
    /\ ev.expected.some
    /\ ev.expected.v # ev.w
    /\ ev.expected.v \in Tracked

\* C7 (as stated, at the moments the source's state is observed): a thumbnail
\* is Minimized if and only if the state just observed of its source window
\* is hidden.
C7_MinimizedIffHidden ==
    /\ (ev.kind = "NetWmState" /\ ev.ret = "Ok")
          => (is_minimized(eve_clients[ev.w].state) <=> ev.hidden)
    /\ (ev.kind = "CreateNotify" /\ ev.w \in Tracked)
          => (is_minimized(eve_clients[ev.w].state) <=> ev.hidden)

\* C11 (as stated): when the source window is destroyed between the property
\* query and its reply, the _NET_WM_STATE handler returns success, not an
\* error.
C11_DestroyedIsNoOp ==
    (ev.kind = "NetWmState" /\ ev.reply = "BadWindow") => ev.ret = "Ok"

(***************************************************************************)
(* Properties of dragging.                                                 *)
(***************************************************************************)
\* the last event was a MotionNotify that moved a dragged overlay
DragMoved == ev.kind = "MotionNotify" /\ ev.w # 0

\* ... with the pointer at the position where the drag started
ZeroMotion == DragMoved /\ ev.root = eve_clients[ev.w].input_state.drag_start

\* the rectangle of the dragged overlay at the start of its drag
RectAtStart(w) ==
    [x |-> eve_clients[w].input_state.win_start[1],
     y |-> eve_clients[w].input_state.win_start[2],
     width |-> ThumbW, height |-> ThumbH]

AtWinStart(w) ==
    <<eve_clients[w].x, eve_clients[w].y>> = eve_clients[w].input_state.win_start

\* C12 (as stated): a MotionNotify whose root position equals drag_start puts
\* the dragged overlay at exactly win_start, whatever the captured snap targets
\* and the snap threshold are.
C12_ZeroMotionIsNoOp == ZeroMotion => AtWinStart(ev.w)

\* C12 (amended): a MotionNotify whose root position equals drag_start puts the
\* dragged overlay at exactly win_start whenever the snap solver finds nothing
\* for the overlay's rectangle at win_start (threshold 0, no captured targets, or
\* no target edge within the threshold).
C12_ZeroMotionNoSnapIsNoOp ==
    (ZeroMotion /\ ~find_snap_position(RectAtStart(ev.w),
                        eve_clients[ev.w].input_state.snap_targets,
                        daemon_config.thumbnail_snap_threshold).some)
        => AtWinStart(ev.w)

C12_Witness ==
    /\ ZeroMotion
    /\ daemon_config.thumbnail_snap_threshold > 0
    /\ eve_clients[ev.w].input_state.snap_targets = << >>
    /\ ev.root # eve_clients[ev.w].input_state.win_start
    /\ AtWinStart(ev.w)

(***************************************************************************)
(* Properties of the button release.                                       *)
(***************************************************************************)
\* the PositionChanged messages among the requests of the last handler
PositionChanged == SelectSeq(xlog, LAMBDA r : r.op = "ipc_position_changed")

\* the last event was a release over a thumbnail that was being dragged
DragEnded == ev.kind = "ButtonRelease" /\ ev.w # 0 /\ ev.dragging

\* C13: a release over a dragging thumbnail with a non-empty identity stores
\* the final geometry in custom_source_thumbnails if the identity is the alias
\* of a custom rule and in character_thumbnails otherwise, leaves the other map
\* alone and emits exactly one PositionChanged whose is_custom flag says which;
\* for the empty identity nothing is stored and nothing is emitted.
C13_DragEndStoresPosition ==
    [][DragEnded' =>
         LET t == eve_clients'[ev'.w]
             name == t.character_name
             settings == CharacterSettings_new(t.x, t.y, ThumbW, ThumbH)
             custom == name \in daemon_config.custom_windows
             msg == [op |-> "ipc_position_changed", name |-> name, x |-> t.x,
                     y |-> t.y, width |-> ThumbW, height |-> ThumbH,
                     is_custom |-> custom]
         IN  IF name = LoggedOutName
             THEN /\ daemon_config' = daemon_config
                  /\ PositionChanged' = << >>
             ELSE /\ PositionChanged' = <<msg>>
                  /\ IF custom
                     THEN /\ daemon_config'.custom_source_thumbnails =
                                 (name :> settings) @@ daemon_config.custom_source_thumbnails
                          /\ daemon_config'.character_thumbnails =
                                 daemon_config.character_thumbnails
                     ELSE /\ daemon_config'.character_thumbnails =
                                 (name :> settings) @@ daemon_config.character_thumbnails
                          /\ daemon_config'.custom_source_thumbnails =
                                 daemon_config.custom_source_thumbnails]_vars

C13_Witness ==
    /\ DragEnded
    /\ eve_clients[ev.w].character_name \in daemon_config.custom_windows
    /\ eve_clients[ev.w].character_name \in DOMAIN daemon_config.custom_source_thumbnails
    /\ Len(PositionChanged) = 1
    /\ PositionChanged[1].is_custom

\* the activation requests among the requests of the last handler
Activations == SelectSeq(xlog, LAMBDA r : r.op = "send_active_window")

\* C14: a left-button release over a hovered thumbnail activates its source
\* window with the timestamp of the release and makes its identity the cycle
\* anchor; a release of any other button activates nothing and leaves the
\* anchor as it was.
C14_LeftReleaseActivates ==
    [][(ev'.kind = "ButtonRelease") =>
         IF ev'.detail = BUTTON_LEFT
         THEN ev'.w # 0 =>
                /\ SubSeq(xlog', 1, Len(activate_window(ev'.w, ev'.time))) =
                       activate_window(ev'.w, ev'.time)
                /\ Activations' = <<[op |-> "send_active_window", w |-> ev'.w,
                                     time |-> ev'.time]>>
                /\ cycle_state'.current = Some(eve_clients'[ev'.w].character_name)
         ELSE /\ Activations' = << >>
              /\ cycle_state' = cycle_state]_vars

C14_Witness ==
    /\ ev.kind = "ButtonRelease" /\ ev.detail = BUTTON_LEFT /\ ev.w # 0
    /\ Len(Activations) = 1
    /\ Activations[1].w = ev.w /\ Activations[1].time = ev.time
    /\ cycle_state.current = Some(eve_clients[ev.w].character_name)
    /\ \E v \in Tracked : v # ev.w

\* the stored exemption of a window's identity: the custom-source settings if
\* there are any, else the character settings, else not exempt
C15_Exempt(w) ==
    LET n == eve_clients[w].character_name
    IN  IF n \in DOMAIN daemon_config.custom_source_thumbnails
        THEN daemon_config.custom_source_thumbnails[n].exempt_from_minimize
        ELSE /\ n \in DOMAIN daemon_config.character_thumbnails
             /\ daemon_config.character_thumbnails[n].exempt_from_minimize

\* how many minimize commands the last handler sent to window w
C15_MinimizeCount(w) ==
    Len(SelectSeq(xlog, LAMBDA r : r.op = "send_change_state_iconic" /\ r.w = w))

\* C15: with client_minimize_on_switch set, a left-button release over a
\* thumbnail sends one minimize command to each tracked window other than the
\* clicked one whose identity is not exempt, and to no other window; with the
\* flag unset, or for another button, no minimize command is sent.
C15_MinimizeExactlyOthers ==
    (ev.kind = "ButtonRelease") =>
        IF ev.w # 0 /\ ev.detail = BUTTON_LEFT /\ daemon_config.client_minimize_on_switch
        THEN \A w \in Win \cup {OtherWin} :
                C15_MinimizeCount(w) =
                    IF w \in Tracked \ {ev.w} /\ ~C15_Exempt(w) THEN 1 ELSE 0
        ELSE C2_Minimized = {}

C15_Witness ==
    /\ ev.kind = "ButtonRelease" /\ ev.detail = BUTTON_LEFT /\ ev.w # 0
    /\ daemon_config.client_minimize_on_switch
    /\ \E w \in Tracked \ {ev.w} : C15_MinimizeCount(w) = 1
    /\ C15_MinimizeCount(ev.w) = 0

(***************************************************************************)
(* Properties of thumbnail creation.                                       *)
(***************************************************************************)
\* the saved position of an identity
SavedPosition(name) ==
    <<daemon_config.character_thumbnails[name].x,
      daemon_config.character_thumbnails[name].y>>

\* C16: if the identity last recorded at window w has saved settings and an
\* identity without saved settings appears at w while
\* thumbnail_preserve_position_on_swap is set, the new thumbnail is created at
\* the saved position of the identity recorded before.
C16_InheritsPosition ==
    [][\A w \in Win :
         LET last == session_state.last_character_by_window[w]
         IN  (/\ ev'.kind = "CreateNotify" /\ ev'.w = w
              /\ w \in Tracked' \ Tracked
              /\ daemon_config.thumbnail_preserve_position_on_swap
              /\ last.some
              /\ last.v \in DOMAIN daemon_config.character_thumbnails
              /\ eve_clients'[w].character_name # LoggedOutName
              /\ eve_clients'[w].character_name
                    \notin DOMAIN daemon_config.character_thumbnails)
             => <<eve_clients'[w].x, eve_clients'[w].y>> = SavedPosition(last.v)]_vars

\* C17: the mapping from tracked source window to identity is injective,
\* except for the logged-out identity (the empty name), which any number of
\* windows may hold.
C17_IdentityInjective ==
    \A v, w \in Tracked :
        (v # w /\ eve_clients[v].character_name = eve_clients[w].character_name)
            => eve_clients[v].character_name = LoggedOutName

\* where the pointer has carried the dragged overlay: win_start + (root - drag_start)
RawPosition(w) ==
    LET i == eve_clients[w].input_state
    IN  <<i.win_start[1] + (ev.root[1] - i.drag_start[1]),
          i.win_start[2] + (ev.root[2] - i.drag_start[2])>>

\* some captured neighbour has a vertical edge exactly on one of the overlay's
EdgesCoincide(w) ==
    LET t == eve_clients[w]
        targets == t.input_state.snap_targets
    IN  \E i \in 1..Len(targets) :
           {t.x, t.x + ThumbW} \cap {targets[i].x, targets[i].x + targets[i].width} # {}

ScenarioS2 ==
    /\ ev.kind = "DragMotion"
    /\ ev.input_state.snap_targets =
          <<[x |-> 405, y |-> 100, width |-> 300, height |-> 200]>>
    /\ ev.root = <<155, 155>>
    /\ ev.threshold = 10

C20_Place(i, k, command) ==
    IF command = "Forward" THEN ((i - 1 + k) % 3) + 1 ELSE ((i - 1 + 3 * k - k) % 3) + 1

InFixedRange(v) ==
    v.k < FIXED_SHIFT => (-Pow2(15 + v.k) <= v.m /\ v.m < Pow2(15 + v.k))

\* ret is an integer nearest to (m / 2^k) * 65536
NearestToProduct(v, ret) ==
    IF v.k <= FIXED_SHIFT
    THEN ret = v.m * Pow2(FIXED_SHIFT - v.k)
    ELSE LET d == Pow2(v.k - FIXED_SHIFT)
             diff == ret * d - v.m
         IN  2 * (IF diff < 0 THEN -diff ELSE diff) <= d

\* C21: within the range of 16.16, to_fixed(v) is v * 65536 rounded to the
\* nearest integer: a whole number n gives n * 65536 (1920 and 1080 among
\* them), 0.5 gives 32768, 0.25 gives 16384, 1/3 gives 21845, and a negative
\* argument gives the negated result of the positive one.
C21_ToFixedRoundsToNearest ==
    (ev.kind = "to_fixed" /\ InFixedRange(ev.v)) =>
        /\ NearestToProduct(ev.v, ev.ret)
        /\ ev.v.k = 0 => ev.ret = ev.v.m * 65536
        /\ ev.v = [m |-> 1, k |-> 1] => ev.ret = 32768
        /\ ev.v = [m |-> 1, k |-> 2] => ev.ret = 16384
        /\ ev.v = [m |-> 11184811, k |-> 25] => ev.ret = 21845
        /\ ev.v.m > 0 => to_fixed([ev.v EXCEPT !.m = -ev.v.m]) = -ev.ret

C21_Witness ==
    /\ ev.kind = "to_fixed"
    /\ ev.v = [m |-> 11184811, k |-> 25]
    /\ ev.ret = 21845

(***************************************************************************)
(* Properties of the process.                                              *)
(***************************************************************************)
\* C22: when the daemon run ends with a fatal error (the connection to the
\* display server is lost), the daemon process exits with a non-zero status.
C22_FatalErrorExitsNonZero ==
    (ev.kind = "Exit" /\ ev.run = "Err") => ev.status # 0

(***************************************************************************)
(* Properties of the font renderer.                                        *)
(***************************************************************************)
\* C23: whenever the X11 core font can be opened, from_system_font returns a
\* renderer, both when no TrueType font is found and when the selected
\* TrueType font fails to load.
C23_FallbackWhenCoreFontOpens ==
    (/\ ev.kind = "from_system_font"
     /\ ev.env.generate_id = "Ok" /\ ev.env.open_font = "Ok")
        => ev.ret.tag = "Ok"

(***************************************************************************)
(* Properties of the order of requests.                                    *)
(***************************************************************************)
\* the places in the requests of the last handler where an overlay is repainted
Repaints == {i \in 1..Len(xlog) : xlog[i].op \in {"border", "minimized"}}

\* C24: in the left-click release handler (minimize-on-switch aside) no flush
\* of the connection lies between the activate request and the last border
\* repaint: all repaints are issued before the connection is flushed.
C24_NoFlushBeforeLastRepaint ==
    (/\ ev.kind = "ButtonRelease" /\ ev.detail = BUTTON_LEFT /\ ev.w # 0
     /\ ~daemon_config.client_minimize_on_switch)
        => \A i, j \in 1..Len(xlog) :
              (xlog[i].op = "send_active_window" /\ i < j /\ xlog[j].op = "flush")
                  => \A k \in Repaints : k < j

(***************************************************************************)
(* Properties of minimize_window and unminimize_window.                    *)
(***************************************************************************)
\* the requests a call has sent are the first n of the given ones, in order
SentPrefix(expected) ==
    /\ Len(xlog) <= Len(expected)
    /\ \A i \in 1..Len(xlog) : xlog[i] = expected[i]

\* C25: minimize_window sends the EWMH add-hidden message, then the ICCCM
\* iconic message, then flushes; unminimize_window sends EWMH remove-hidden,
\* then ICCCM normal-state, then flushes; when the first send fails the second
\* message is not sent and an error is returned.
C25_MessagesInOrder ==
    /\ ev.kind = "minimize_window" =>
         /\ SentPrefix(<< [op |-> "send_state_add_hidden", w |-> ev.call.window],
                          [op |-> "send_change_state_iconic", w |-> ev.call.window],
                          [op |-> "flush"] >>)
         /\ ev.ret = "Ok" <=> Len(xlog) = 3
         /\ ev.call.results[1] = "Err" => (xlog = << >> /\ ev.ret = "Err")
    /\ ev.kind = "unminimize_window" =>
         /\ SentPrefix(<< [op |-> "send_state_remove_hidden", w |-> ev.call.window],
                          [op |-> "send_change_state_normal", w |-> ev.call.window],
                          [op |-> "flush"] >>)
         /\ ev.ret = "Ok" <=> Len(xlog) = 3
         /\ ev.call.results[1] = "Err" => (xlog = << >> /\ ev.ret = "Err")

\* a minimize whose first send failed while the second would have succeeded
C25_Witness ==
    /\ ev.kind = "minimize_window"
    /\ ev.call.results[1] = "Err" /\ ev.call.results[2] = "Ok"
    /\ ev.ret = "Err"

(***************************************************************************)
(* Properties of the dimensions of a new thumbnail.                        *)
(***************************************************************************)
\* C26: a thumbnail created for a character whose stored dimensions are (0,0),
\* or that has no stored settings, gets the profile-wide default size for the
\* screen; a character with stored non-zero dimensions gets exactly those.
C26_DefaultSizeWhenUnset ==
    ev.kind = "dimensions" =>
        LET ct == ev.character_thumbnails
            name == ev.character_name
            default == default_thumbnail_size(ev.screen[1], ev.screen[2])
        IN  /\ name \notin DOMAIN ct => ev.ret = default
            /\ (name \in DOMAIN ct /\ ct[name].width = 0 /\ ct[name].height = 0)
                   => ev.ret = default
            /\ (name \in DOMAIN ct /\ ct[name].width # 0 /\ ct[name].height # 0)
                   => ev.ret = <<ct[name].width, ct[name].height>>

\* a character with stored dimensions (0,0) was given the default size
C26_Witness ==
    /\ ev.kind = "dimensions"
    /\ ev.character_name \in DOMAIN ev.character_thumbnails
    /\ ev.character_thumbnails[ev.character_name].width = 0
    /\ ev.character_thumbnails[ev.character_name].height = 0
    /\ ev.ret = <<4, 3>>

(***************************************************************************)
(* Properties of the classifier's side effects.                            *)
(***************************************************************************)
\* the classifier has returned without accepting the window
Rejected == cpc = "done" /\ cl.ret.tag # "OkSome"

\* C27 (as claimed): the classifier changes a window's event mask and its
\* last_character_by_window entry only for windows it accepts: an accepted
\* window gets the property-change and focus-change masks and its entry set to
\* the accepted identity, a rejected window has neither its event mask nor its
\* entry changed.
C27_SideEffectsOnlyWhenAccepted ==
    /\ cl.ret.tag = "OkSome" =>
         /\ xmask = {"PROPERTY_CHANGE", "FOCUS_CHANGE"}
         /\ session_state.last_character_by_window[CW] = Some(cl.ret.val)
    /\ Rejected => (xmask = {} /\ session_state = SessionInit)

\* C27 (amended): an accepted window gets the property-change and focus-change
\* masks and its entry set to the accepted identity; a rejected window never
\* has its entry changed and never gets the focus-change mask; its event mask
\* is unchanged when it is rejected before the title gate and is the
\* property-change mask alone when it is rejected at the title gate.
C27_RejectedKeepsEntry ==
    /\ cl.ret.tag = "OkSome" =>
         /\ xmask = {"PROPERTY_CHANGE", "FOCUS_CHANGE"}
         /\ session_state.last_character_by_window[CW] = Some(cl.ret.val)
    /\ Rejected =>
         /\ session_state = SessionInit
         /\ cl.strategy # "inspect" => xmask = {}
         /\ cl.strategy = "inspect" => xmask = {"PROPERTY_CHANGE"}

\* a window of a known class whose title is not a client's: rejected at the
\* title gate, after the property-change mask was selected on it
C27_Witness ==
    /\ Rejected
    /\ cl.strategy = "inspect"
    /\ cl.title_res = OkNone
    /\ xmask = {"PROPERTY_CHANGE"}
    /\ session_state = SessionInit

(***************************************************************************)
(* Properties of the rendered label.                                       *)
(***************************************************************************)
\* C28: every pixel of the bitmap render_text returns is premultiplied ARGB
\* (red, green and blue never exceed alpha, for every foreground colour and
\* every coverage), and the bitmap holds exactly width x height pixels.
C28_Premultiplied ==
    ev.kind = "render_text" =>
        /\ Len(ev.ret.data) = ev.ret.width * ev.ret.height
        /\ \A k \in 1..Len(ev.ret.data) :
             LET p == ev.ret.data[k]
             IN  p.r <= p.a /\ p.g <= p.a /\ p.b <= p.a

(***************************************************************************)
(* Properties of the process strategy.                                     *)
(***************************************************************************)
\* the _NET_WM_PID read has been made
PidRead == cl.pid_reply # "-"

\* C29: check_eve_window rejects every window whose PID is the daemon's own,
\* whatever its class and title, and otherwise passes to the title gate every
\* window whose class is a known client class, even when its PID is absent or
\* is not that of a process identified as Wine/Proton.
C29_OwnPidRejectedClassFallback ==
    /\ (PidRead /\ cl.pid = "own") =>
         (cpc = "done" /\ cl.ret = OkNone /\ ~TitleInspected /\ xmask = {})
    /\ (PidRead /\ cl.pid # "own" /\ ClassKnown) =>
         (cl.strategy = "inspect" /\ (cpc = "title" \/ TitleInspected))

\* a window of a known class whose process is not identified as Wine/Proton
\* has had its title inspected
C29_Witness ==
    /\ ClassKnown
    /\ cl.pid = "p" /\ ~xwin.wine
    /\ TitleInspected

(***************************************************************************)
(* Properties of the snap targets captured by a press.                     *)
(***************************************************************************)
\* the tracked thumbnails other than w that are visible
VisibleOthers(w) == {v \in Tracked \ {w} : is_visible(eve_clients[v])}

Dragging == {w \in Tracked : eve_clients[w].input_state.dragging}

\* win_start + (event_root - drag_start) of a thumbnail for a pointer position
C31_Raw(t, root) ==
    <<t.input_state.win_start[1] + (root[1] - t.input_state.drag_start[1]),
      t.input_state.win_start[2] + (root[2] - t.input_state.drag_start[2])>>

\* the position the claim expects the dragged thumbnail to be moved to
C31_Expected(t, root) ==
    LET raw == C31_Raw(t, root)
        snapped == find_snap_position(
                       [x |-> raw[1], y |-> raw[2], width |-> ThumbW, height |-> ThumbH],
                       t.input_state.snap_targets, daemon_config.thumbnail_snap_threshold)
    IN  IF snapped.some THEN snapped.v ELSE raw

\* C31: a MotionNotify handled while no thumbnail is dragging repositions no
\* overlay and changes no state; while a thumbnail is dragging it repositions
\* only that thumbnail, to the snapped position if the solver returns one and
\* to win_start + (event_root - drag_start) otherwise.
C31_MotionFrame ==
    [][ev'.kind = "MotionNotify" =>
          /\ session_state' = session_state
          /\ cycle_state' = cycle_state
          /\ daemon_config' = daemon_config
          /\ iter_order' = iter_order
          /\ IF Dragging = {}
             THEN eve_clients' = eve_clients /\ xlog' = << >>
             ELSE \E w \in Dragging :
                    LET pos == C31_Expected(eve_clients[w], ev'.root)
                    IN  /\ eve_clients' = [eve_clients EXCEPT ![w].x = pos[1],
                                                              ![w].y = pos[2]]
                        /\ xlog' = <<[op |-> "reposition", w |-> w,
                                      x |-> pos[1], y |-> pos[2]]>>]_vars

\* a motion moved the dragged thumbnail to a snapped position that is not the
\* raw one
C31_Witness ==
    /\ ev.kind = "MotionNotify" /\ ev.w # 0
    /\ xlog # << >>
    /\ <<xlog[1].x, xlog[1].y>> # C31_Raw(eve_clients[ev.w], ev.root)
    /\ <<eve_clients[ev.w].x, eve_clients[ev.w].y>> = <<xlog[1].x, xlog[1].y>>

(***************************************************************************)
(* Properties of handle_focus_out.                                         *)
(***************************************************************************)
\* C32: FocusOut sets focus_loss_deadline (to now + 100 ms) if and only if its
\* mode is not Grab, hide_when_no_focus is set and the event window is tracked
\* with its thumbnail in the focused state; in every other case the deadline
\* is left unchanged, and FocusOut never changes a thumbnail's state.
C32_FocusOutSchedulesHide ==
    [][ev'.kind = "FocusOut" =>
          /\ eve_clients' = eve_clients
          /\ IF /\ ev'.mode # "Grab"
                /\ daemon_config.hide_when_no_focus
                /\ ev'.w \in Tracked
                /\ eve_clients[ev'.w].state = "NormalFocused"
             THEN session_state' =
                      [session_state EXCEPT !.focus_loss_deadline = Some(100)]
             ELSE session_state' = session_state]_vars

\* a focused thumbnail's window lost the focus and the auto-hide is scheduled
C32_Witness ==
    /\ ev.kind = "FocusOut" /\ ev.mode = "Ungrab"
    /\ ev.w \in Tracked
    /\ eve_clients[ev.w].state = "NormalFocused"
    /\ session_state.focus_loss_deadline = Some(100)

(***************************************************************************)
(* Properties of the reveal in handle_focus_in.                            *)
(***************************************************************************)
\* the override of a thumbnail's character, None without stored settings
OverrideOf(w) ==
    LET name == eve_clients[w].character_name
    IN  IF name \in DOMAIN daemon_config.character_thumbnails
        THEN daemon_config.character_thumbnails[name].override_render_preview
        ELSE None

\* force-hidden by its override, or without an override while previews are
\* globally disabled
Barred(w) ==
    \/ OverrideOf(w) = Some(FALSE)
    \/ OverrideOf(w) = None /\ ~daemon_config.enabled

\* C33: FocusIn never reveals (maps) a thumbnail whose identity is force-hidden
\* by override_render_preview = false, nor, when previews are globally
\* disabled, one without an override; when hide_when_no_focus is set and some
\* thumbnail is not visible (its overlay is unmapped), a FocusIn that is not
\* ignored reveals every other thumbnail: all but the barred ones are mapped.
C33_RevealRespectsOverride ==
    [][ev'.kind = "FocusIn" =>
          \A w \in Tracked :
              /\ Barred(w) => eve_clients'[w].mapped = eve_clients[w].mapped
              /\ (/\ ev'.handled
                  /\ daemon_config.hide_when_no_focus
                  /\ \E v \in Tracked : ~eve_clients[v].mapped
                  /\ ~Barred(w))
                     => eve_clients'[w].mapped]_vars

(***************************************************************************)
(* Frame of an ignored FocusIn.                                            *)
(***************************************************************************)
\* C34: a FocusIn with mode Ungrab, or a FocusIn on an untracked window that
\* differs from the expected window while an expected window is set, changes
\* nothing: cycle anchor, focus_loss_deadline and every thumbnail's state and
\* visibility are left as they were.
C34_IgnoredFocusInChangesNothing ==
    [][(/\ ev'.kind = "FocusIn"
        /\ \/ ev'.mode = "Ungrab"
           \/ /\ cycle_state.current_window.some
              /\ ev'.w # cycle_state.current_window.v
              /\ ev'.w \notin Tracked)
          => /\ cycle_state' = cycle_state
             /\ session_state' = session_state
             /\ eve_clients' = eve_clients
             /\ xlog' = << >>]_vars

\* a FocusIn on an untracked window was ignored while a hide was pending and a
\* thumbnail was focused
C34_Witness ==
    /\ ev.kind = "FocusIn" /\ ev.mode = "Normal"
    /\ ev.w \notin Tracked
    /\ ev.expected.some
    /\ session_state.focus_loss_deadline.some
    /\ \E w \in Tracked : eve_clients[w].state = "NormalFocused"

(***************************************************************************)
(* Properties of the drag flag.                                            *)
(***************************************************************************)
\* C35: after any ButtonRelease is handled no thumbnail is left with
\* dragging = true: a drag started by a right ButtonPress ends at the next
\* ButtonRelease wherever the pointer is at the release, and its final
\* position is the one saved.
C35_ReleaseEndsDrag ==
    ev.kind = "ButtonRelease" =>
        /\ Dragging = {}
        /\ ev.w # 0 /\ ev.dragging =>
             session_state.window_positions[ev.w]
                 = Some(<<eve_clients[ev.w].x, eve_clients[ev.w].y>>)

\* C36: in every reachable state at most one thumbnail has dragging = true,
\* for any interleaving of ButtonPress, MotionNotify and ButtonRelease events.
C36_AtMostOneDragging == Cardinality(Dragging) <= 1

(***************************************************************************)
(* Frame of the stored CharacterSettings.                                  *)
(***************************************************************************)
\* C37: the core changes only the position and dimensions of an identity's
\* stored CharacterSettings: no handled event changes the identity's
\* exempt_from_minimize or override_render_preview, so an identity that is
\* exempt before a drag is still exempt after it.
C37_SettingsKeepFlags ==
    [][\A n \in DOMAIN daemon_config.character_thumbnails :
          /\ n \in DOMAIN daemon_config'.character_thumbnails
          /\ daemon_config'.character_thumbnails[n].exempt_from_minimize
                = daemon_config.character_thumbnails[n].exempt_from_minimize
          /\ daemon_config'.character_thumbnails[n].override_render_preview
                = daemon_config.character_thumbnails[n].override_render_preview]_vars

(***************************************************************************)
(* The Hidden state and the mapping of the overlay.                        *)
(***************************************************************************)
\* C38: in every reachable state a thumbnail's overlay is unmapped if and only
\* if its state is Hidden.
C38_UnmappedIffHidden ==
    \A w \in Tracked : ~eve_clients[w].mapped <=> eve_clients[w].state = "Hidden"

(* The character name of a classified window. *)
\* C39: the classifier yields the empty character name only for the logged-out
\* title: every window classified as LoggedIn carries a non-empty name.
C39_LoggedInHasName ==
    /\ (cl.title_res.tag = "OkSome" /\ cl.title_res.val.kind = "LoggedIn")
          => cl.title_res.val.name # << >>
    /\ (cl.title_res.tag = "OkSome" /\ character_name_of(cl.title_res.val) = LoggedOutName)
          => from_utf8_lossy(xwin.wm_name) = LOGGED_OUT_TITLE

(* The confirmation steps of the backup panel. *)
\* the BackupManager calls of a kind among those of the last frame
C40_Called(log, op) == \E i \in 1..Len(log) : log[i].op = op

\* C40: in the backup panel restore_backup runs only in a frame that began with
\* show_restore_confirm set and delete_backup only in one that began with
\* show_delete_confirm set; a flag becomes set only by a click on its own
\* Restore / Delete button; and the two flags are never both set.
C40_ConfirmedFirst ==
    [][ev'.kind = "ui" =>
          /\ C40_Called(xlog', "restore_backup") =>
                 ev.state.show_restore_confirm /\ "yes_restore" \in ev'.clicks
          /\ C40_Called(xlog', "delete_backup") =>
                 ev.state.show_delete_confirm /\ "yes_delete" \in ev'.clicks
          /\ (ev'.state.show_restore_confirm /\ ~ev.state.show_restore_confirm)
                 => "restore" \in ev'.clicks
          /\ (ev'.state.show_delete_confirm /\ ~ev.state.show_delete_confirm)
                 => "delete" \in ev'.clicks
          /\ ~(ev.state.show_restore_confirm /\ ev.state.show_delete_confirm)
          /\ ~(ev'.state.show_restore_confirm /\ ev'.state.show_delete_confirm)]_vars

\* a confirmed restore has run, in a frame in which Delete was clicked as well
C40_Witness ==
    /\ ev.kind = "ui"
    /\ C40_Called(xlog, "restore_backup")
    /\ "delete" \in ev.clicks
    /\ ev.state.show_delete_confirm

====
